---- MODULE Spec2Model ----
(***************************************************************************)
(* Model of the SAI quote-search core: the Module 1 assembly matcher       *)
(* (src/Module1Matcher.py) and the box-number generator                    *)
(* (src/quote_search_app_with_module1.py).                                 *)
(*                                                                         *)
(* Python strings are sequences of one-character strings, so that upper(), *)
(* lower(), split() and the substring test `a in b` are computed and not   *)
(* assumed.  Python values that a dict field may hold are tagged records.  *)
(***************************************************************************)
EXTENDS Integers, Sequences, FiniteSets, TLC

VARIABLES
    excel,      \* content of "Module 1.xlsx": a sequence of rows, or ExcelUnreadable
    _matcher,   \* the module-level singleton: None or the constructed Module1Matcher
    pc,         \* "idle" between calls, "done" when a call has returned or raised
    call,       \* the call that was made: its name and its arguments
    features,   \* the features dict of the call, as the call left it
    result,     \* what the call returned, or [raised |-> ...] when it raised
    blob,       \* the memory blob in the storage container: BlobMissing or its JSON
    clock,      \* datetime.now(), counted in calls of store_quote_patterns
    sessions    \* per app session: the call in progress, its local `memory`, its result

memory_vars == <<blob, clock, sessions>>

vars == <<excel, _matcher, pc, call, features, result, blob, clock, sessions>>

-----------------------------------------------------------------------------
(* Python values *)

None == [t |-> "None"]
PyStr(s) == [t |-> "str", s |-> s]
PyInt(n) == [t |-> "int", n |-> n]
PyBool(b) == [t |-> "bool", b |-> b]

IsNone(v) == v.t = "None"
IsStr(v) == v.t = "str"
IsInt(v) == v.t = "int"

\* Python truthiness: None, "", 0 and False are falsy
Truthy(v) ==
    CASE v.t = "None" -> FALSE
      [] v.t = "str"  -> Len(v.s) > 0
      [] v.t = "int"  -> v.n # 0
      [] v.t = "bool" -> v.b
      [] OTHER        -> TRUE

\* the empty dict {}
EmptyDict == [k \in {} |-> None]

-----------------------------------------------------------------------------
(* Python string operations *)

LowerLetters == <<"a","b","c","d","e","f","g","h","i","j","k","l","m",
                  "n","o","p","q","r","s","t","u","v","w","x","y","z">>
UpperLetters == <<"A","B","C","D","E","F","G","H","I","J","K","L","M",
                  "N","O","P","Q","R","S","T","U","V","W","X","Y","Z">>

UpperChar(c) ==
    IF \E i \in 1..26 : LowerLetters[i] = c
    THEN UpperLetters[CHOOSE i \in 1..26 : LowerLetters[i] = c]
    ELSE c

LowerChar(c) ==
    IF \E i \in 1..26 : UpperLetters[i] = c
    THEN LowerLetters[CHOOSE i \in 1..26 : UpperLetters[i] = c]
    ELSE c

\* str.upper() and str.lower()
Upper(s) == [i \in 1..Len(s) |-> UpperChar(s[i])]
Lower(s) == [i \in 1..Len(s) |-> LowerChar(s[i])]

\* the substring test `sub in s`
Contains(sub, s) ==
    \/ Len(sub) = 0
    \/ \E i \in 1..(Len(s) - Len(sub) + 1) : SubSeq(s, i, i + Len(sub) - 1) = sub

IsSpace(c) == c \in {" ", "\t", "\n"}
IsDigit(c) == c \in {"0","1","2","3","4","5","6","7","8","9"}

\* set(s.split()): the maximal runs of non-whitespace characters of s
Terms(s) ==
    { SubSeq(s, i, j) : <<i, j>> \in
        { p \in (1..Len(s)) \X (1..Len(s)) :
            /\ p[1] <= p[2]
            /\ \A k \in p[1]..p[2] : ~IsSpace(s[k])
            /\ (p[1] = 1 \/ IsSpace(s[p[1] - 1]))
            /\ (p[2] = Len(s) \/ IsSpace(s[p[2] + 1])) } }

\* ' '.join(parts)
RECURSIVE JoinSpace(_)
JoinSpace(parts) ==
    IF Len(parts) = 0 THEN <<>>
    ELSE IF Len(parts) = 1 THEN parts[1]
    ELSE parts[1] \o <<" ">> \o JoinSpace(Tail(parts))

\* re.search(r'(\d+)', s).group(1): the first maximal run of digits, or <<>> if none
FirstDigitRun(s) ==
    IF \E i \in 1..Len(s) : IsDigit(s[i])
    THEN LET i == CHOOSE a \in 1..Len(s) :
                    IsDigit(s[a]) /\ \A b \in 1..(a - 1) : ~IsDigit(s[b])
             j == CHOOSE a \in i..Len(s) :
                    /\ \A b \in i..a : IsDigit(s[b])
                    /\ (a = Len(s) \/ ~IsDigit(s[a + 1]))
         IN  SubSeq(s, i, j)
    ELSE <<>>

-----------------------------------------------------------------------------
(* The breaker, mount and access literals of the matcher *)

ABB_SACE_Emax_6_2 == <<"A","B","B"," ","S","A","C","E"," ","E","m","a","x"," ","6",".","2">>
ABB_SACE_Emax_4_2 == <<"A","B","B"," ","S","A","C","E"," ","E","m","a","x"," ","4",".","2">>
ABB_SACE_Emax_2_2 == <<"A","B","B"," ","S","A","C","E"," ","E","m","a","x"," ","2",".","2">>
ABB_SACE_Tmax == <<"A","B","B"," ","S","A","C","E"," ","T","m","a","x">>
Square_D == <<"S","q","u","a","r","e"," ","D">>
multiple == <<"m","u","l","t","i","p","l","e">>
Fixed == <<"F","i","x","e","d">>
Drawout == <<"D","r","a","w","o","u","t">>
Front_and_rear == <<"F","r","o","n","t"," ","a","n","d"," ","r","e","a","r">>
Front_only == <<"F","r","o","n","t"," ","o","n","l","y">>

-----------------------------------------------------------------------------
(* The assembly catalog: Module1Matcher._load_assembly_specs *)

\* the keys of assembly_specs, in declaration (dict insertion) order
AssemblyIds ==
    << "123456-0100-101", "123456-0100-102", "123456-0100-103",
       "123456-0100-201", "123456-0100-202", "123456-0100-203",
       "123456-0100-204", "123456-0100-301", "123456-0100-302",
       "123456-0100-401" >>

SpecOf(h, w, d, b, q, m, a, p) ==
    [height |-> PyStr(h), width |-> PyStr(w), depth |-> PyStr(d),
     breaker_type |-> PyStr(b), breaker_quantity |-> q,
     mount |-> PyStr(m), access |-> PyStr(a), project |-> p]

assembly_specs ==
    [id \in {AssemblyIds[i] : i \in 1..Len(AssemblyIds)} |->
      CASE id = "123456-0100-101" ->
             SpecOf(<<"9","0">>, <<"4","0">>, <<"6","0">>, ABB_SACE_Emax_6_2, PyInt(1),
                    Fixed, Front_and_rear, "UL891-S41A Section 101")
        [] id = "123456-0100-102" ->
             SpecOf(<<"9","0">>, <<"4","0">>, <<"6","0">>, ABB_SACE_Emax_2_2, PyInt(3),
                    Fixed, Front_and_rear, "UL891-S41A Section 102")
        [] id = "123456-0100-103" ->
             SpecOf(<<"9","0">>, <<"4","0">>, <<"6","0">>, ABB_SACE_Emax_2_2, PyInt(2),
                    Fixed, Front_and_rear, "UL891-S41A Section 103")
        [] id = "123456-0100-201" ->
             SpecOf(<<"9","0">>, <<"4","0">>, <<"6","0">>, ABB_SACE_Emax_6_2, PyInt(1),
                    Drawout, Front_only, "UL891-S41B Section 101")
        [] id = "123456-0100-202" ->
             SpecOf(<<"9","0">>, <<"4","0">>, <<"6","0">>, ABB_SACE_Emax_2_2, PyInt(1),
                    Drawout, Front_only, "UL891-S41B Section 102")
        [] id = "123456-0100-203" ->
             SpecOf(<<"9","0">>, <<"4","0">>, <<"6","0">>, ABB_SACE_Emax_2_2, PyInt(2),
                    Drawout, Front_only, "UL891-S41B Section 103")
        [] id = "123456-0100-204" ->
             SpecOf(<<"9","0">>, <<"4","2">>, <<"6","0">>, ABB_SACE_Tmax, PyStr(multiple),
                    Fixed, Front_only, "UL891-S41B Section 104")
        [] id = "123456-0100-301" ->
             SpecOf(<<"9","0">>, <<"3","0">>, <<"4","8">>, ABB_SACE_Emax_2_2, PyInt(1),
                    Drawout, Front_and_rear, "UL891-S4S1 Section 101")
        [] id = "123456-0100-302" ->
             SpecOf(<<"9","0">>, <<"4","2">>, <<"4","8">>, ABB_SACE_Tmax, PyStr(multiple),
                    Fixed, Front_and_rear, "UL891-S4S1 Section 102")
        [] id = "123456-0100-401" ->
             SpecOf(<<"7","8">>, <<"4","2">>, <<"3","3">>, Square_D, PyStr(multiple),
                    Fixed, Front_only, "400kW GVX Section 101") ]

-----------------------------------------------------------------------------
(* The parts table "Module 1.xlsx" and Module1Matcher.load_data *)

\* pd.read_excel fails (file missing, not a workbook) or the table has no
\* 'Assembly Number' column
ExcelUnreadable == [t |-> "unreadable"]

\* a workbook that read_excel reads: its rows
Workbook(rows) == [t |-> "workbook", rows |-> rows]

\* one row per part: its 'Assembly Number' and its 'Component Part Number'; the
\* part number here is the row's position in the sheet
RowsOf(ids) == [i \in 1..Len(ids) |-> [AssemblyNumber |-> ids[i], PartNumber |-> i]]

\* an id of the sheet that the hard-coded table does not have
UnknownId == "123456-0100-999"

\* every catalog id, some with several rows, rows of one assembly not adjacent
SheetFull ==
    RowsOf(<< "123456-0100-101", "123456-0100-102", "123456-0100-101",
              "123456-0100-103", "123456-0100-201", "123456-0100-202",
              "123456-0100-203", "123456-0100-204", "123456-0100-301",
              "123456-0100-302", "123456-0100-401", "123456-0100-201",
              "123456-0100-101" >>)

\* every catalog id, the assemblies in another order than the hard-coded table
SheetReordered ==
    RowsOf(<< "123456-0100-401", "123456-0100-302", "123456-0100-301",
              "123456-0100-204", "123456-0100-203", "123456-0100-202",
              "123456-0100-201", "123456-0100-103", "123456-0100-102",
              "123456-0100-101", "123456-0100-401" >>)

\* a sheet that lacks catalog ids and holds an id the hard-coded table lacks
SheetOther ==
    RowsOf(<< "123456-0100-201", UnknownId, "123456-0100-101",
              "123456-0100-201", "123456-0100-302" >>)

ExcelFiles ==
    {ExcelUnreadable, Workbook(SheetFull), Workbook(SheetReordered), Workbook(SheetOther)}

\* df['Assembly Number'].unique(): the distinct values in order of first appearance
RECURSIVE Unique(_)
Unique(ids) ==
    IF Len(ids) = 0 THEN <<>>
    ELSE LET init == Unique(SubSeq(ids, 1, Len(ids) - 1))
             last == ids[Len(ids)]
         IN  IF \E i \in 1..Len(init) : init[i] = last THEN init ELSE Append(init, last)

\* df[df['Assembly Number'] == assembly_num]: the rows of one assembly, in sheet order
RowsFor(df, assembly_num) ==
    SelectSeq(df, LAMBDA row : row.AssemblyNumber = assembly_num)

\* load_data had it counted the rows of the whole sheet for every assembly
load_data_counts_sheet(df) ==
    LET keys == Unique([i \in 1..Len(df) |-> df[i].AssemblyNumber])
    IN  [t |-> "Module1Matcher",
         keys |-> keys,
         assemblies |->
            [id \in {keys[i] : i \in 1..Len(keys)} |->
                [components |-> RowsFor(df, id),
                 total_parts |-> Len(df)]]]

\* The matcher object after __init__: self.assemblies as its key list (dict
\* insertion order) and its entries.  The 'specs' entry that
\* _infer_specs_from_components computes is read by no operation and is left out.
load_data(df) ==
    LET keys == Unique([i \in 1..Len(df) |-> df[i].AssemblyNumber])
    IN  [t |-> "Module1Matcher",
         keys |-> keys,
         assemblies |->
            [id \in {keys[i] : i \in 1..Len(keys)} |->
                [components |-> RowsFor(df, id),
                 total_parts |-> Len(RowsFor(df, id))]]]

\* Module1Matcher(): load_data re-raises what read_excel raised
ConstructRaises(file) == file = ExcelUnreadable

-----------------------------------------------------------------------------
(* Module1Matcher: normalisation and matching *)

Raise(e) == [t |-> "raise", e |-> e]
IsRaise(v) == v.t = "raise"

\* _normalize_breaker_type; a truthy non-string has no upper()
_normalize_breaker_type(breaker_str) ==
    IF ~Truthy(breaker_str) THEN PyStr(<<>>)
    ELSE IF ~IsStr(breaker_str) THEN Raise("AttributeError")
    ELSE LET breaker_upper == Upper(breaker_str.s) IN
         IF \/ Contains(<<"E","M","A","X"," ","6",".","2">>, breaker_upper)
            \/ Contains(<<"E","6",".","2">>, breaker_upper)
         THEN PyStr(ABB_SACE_Emax_6_2)
         ELSE IF \/ Contains(<<"E","M","A","X"," ","4",".","2">>, breaker_upper)
                 \/ Contains(<<"E","4",".","2">>, breaker_upper)
         THEN PyStr(ABB_SACE_Emax_4_2)
         ELSE IF \/ Contains(<<"E","M","A","X"," ","2",".","2">>, breaker_upper)
                 \/ Contains(<<"E","2",".","2">>, breaker_upper)
         THEN PyStr(ABB_SACE_Emax_2_2)
         ELSE IF Contains(<<"T","M","A","X">>, breaker_upper)
         THEN PyStr(ABB_SACE_Tmax)
         ELSE IF Contains(<<"S","Q","U","A","R","E"," ","D">>, breaker_upper)
         THEN PyStr(Square_D)
         ELSE breaker_str

\* _breaker_compatible had it looked for the words anywhere in the two strings
_breaker_compatible_substring(feature_breaker, spec_breaker) ==
    \/ feature_breaker = spec_breaker
    \/ /\ Contains(<<"A","B","B">>, feature_breaker)
       /\ Contains(<<"A","B","B">>, spec_breaker)
       /\ \/ /\ Contains(<<"E","M","A","X">>, feature_breaker)
             /\ Contains(<<"E","M","A","X">>, spec_breaker)
          \/ /\ Contains(<<"T","M","A","X">>, feature_breaker)
             /\ Contains(<<"T","M","A","X">>, spec_breaker)
    \/ /\ Contains(<<"S","Q","U","A","R","E">>, feature_breaker)
       /\ Contains(<<"S","Q","U","A","R","E">>, spec_breaker)

\* _breaker_compatible had it looked for the family only in the feature's terms
_breaker_compatible_one_sided(feature_breaker, spec_breaker) ==
    LET feature_terms == Terms(feature_breaker)
        spec_terms == Terms(spec_breaker)
    IN  \/ feature_breaker = spec_breaker
        \/ /\ <<"A","B","B">> \in feature_terms
           /\ <<"A","B","B">> \in spec_terms
           /\ \/ <<"E","M","A","X">> \in feature_terms
              \/ <<"T","M","A","X">> \in feature_terms /\ <<"T","M","A","X">> \in spec_terms
        \/ /\ <<"S","Q","U","A","R","E">> \in feature_terms
           /\ <<"S","Q","U","A","R","E">> \in spec_terms

\* _breaker_compatible, on two upper-cased strings
_breaker_compatible(feature_breaker, spec_breaker) ==
    LET feature_terms == Terms(feature_breaker)
        spec_terms == Terms(spec_breaker)
    IN  \/ feature_breaker = spec_breaker
        \/ /\ <<"A","B","B">> \in feature_terms
           /\ <<"A","B","B">> \in spec_terms
           /\ \/ <<"E","M","A","X">> \in feature_terms /\ <<"E","M","A","X">> \in spec_terms
              \/ <<"T","M","A","X">> \in feature_terms /\ <<"T","M","A","X">> \in spec_terms
        \/ /\ <<"S","Q","U","A","R","E">> \in feature_terms
           /\ <<"S","Q","U","A","R","E">> \in spec_terms

\* _features_match had it compared the access without the test for None
_features_match_null_access_rejects(f, specs) ==
    /\ ~(Truthy(f.height) /\ f.height # specs.height)
    /\ ~(Truthy(f.width) /\ f.width # specs.width)
    /\ ~(Truthy(f.depth) /\ f.depth # specs.depth)
    /\ Truthy(f.breaker_type) =>
          _breaker_compatible(Upper(f.breaker_type.s), Upper(specs.breaker_type.s))
    /\ (Truthy(f.breaker_quantity) /\ specs.breaker_quantity # PyStr(multiple)) =>
          f.breaker_quantity = specs.breaker_quantity
    /\ IsStr(f.access) /\ Lower(f.access.s) = Lower(specs.access.s)
    /\ Truthy(f.mount) => Lower(f.mount.s) = Lower(specs.mount.s)

\* _features_match had it compared the height without the test for None
_features_match_null_height_rejects(f, specs) ==
    /\ f.height = specs.height
    /\ ~(Truthy(f.width) /\ f.width # specs.width)
    /\ ~(Truthy(f.depth) /\ f.depth # specs.depth)
    /\ Truthy(f.breaker_type) =>
          _breaker_compatible(Upper(f.breaker_type.s), Upper(specs.breaker_type.s))
    /\ (Truthy(f.breaker_quantity) /\ specs.breaker_quantity # PyStr(multiple)) =>
          f.breaker_quantity = specs.breaker_quantity
    /\ Truthy(f.access) => Lower(f.access.s) = Lower(specs.access.s)
    /\ Truthy(f.mount) => Lower(f.mount.s) = Lower(specs.mount.s)

\* _features_match; the string fields of features are strings or None here
_features_match(f, specs) ==
    /\ ~(Truthy(f.height) /\ f.height # specs.height)
    /\ ~(Truthy(f.width) /\ f.width # specs.width)
    /\ ~(Truthy(f.depth) /\ f.depth # specs.depth)
    /\ Truthy(f.breaker_type) =>
          _breaker_compatible(Upper(f.breaker_type.s), Upper(specs.breaker_type.s))
    /\ (Truthy(f.breaker_quantity) /\ specs.breaker_quantity # PyStr(multiple)) =>
          f.breaker_quantity = specs.breaker_quantity
    /\ Truthy(f.access) => Lower(f.access.s) = Lower(specs.access.s)
    /\ Truthy(f.mount) => Lower(f.mount.s) = Lower(specs.mount.s)

\* the score had a compatible breaker counted 1
ClosestScore_breaker_one(f, specs) ==
      (IF f.height = specs.height THEN 3 ELSE 0)
    + (IF f.width = specs.width THEN 3 ELSE 0)
    + (IF f.depth = specs.depth THEN 3 ELSE 0)
    + (IF /\ Truthy(f.breaker_type)
          /\ _breaker_compatible(Upper(f.breaker_type.s), Upper(specs.breaker_type.s))
       THEN 1 ELSE 0)

\* the score _find_closest_matches gives one catalog entry
ClosestScore(f, specs) ==
      (IF f.height = specs.height THEN 3 ELSE 0)
    + (IF f.width = specs.width THEN 3 ELSE 0)
    + (IF f.depth = specs.depth THEN 3 ELSE 0)
    + (IF /\ Truthy(f.breaker_type)
          /\ _breaker_compatible(Upper(f.breaker_type.s), Upper(specs.breaker_type.s))
       THEN 2 ELSE 0)

\* the largest score an entry can get: 3 + 3 + 3 + 2
TopScore == 11

\* list.sort(key=score, reverse=True): stable, so equal scores keep their order
RECURSIVE SortByScoreFrom(_, _)
SortByScoreFrom(scores, s) ==
    IF s < 0 THEN <<>>
    ELSE SelectSeq(scores, LAMBDA e : e[2] = s) \o SortByScoreFrom(scores, s - 1)

\* list.sort(key=score) without reverse=True: ascending, equal scores keep their order
RECURSIVE SortByScoreUpFrom(_, _)
SortByScoreUpFrom(scores, s) ==
    IF s > TopScore THEN <<>>
    ELSE SelectSeq(scores, LAMBDA e : e[2] = s) \o SortByScoreUpFrom(scores, s + 1)

\* the list `scores` had the sort been ascending
RankedScores_ascending(f) ==
    SortByScoreUpFrom(
        [i \in 1..Len(AssemblyIds) |->
            <<AssemblyIds[i], ClosestScore(f, assembly_specs[AssemblyIds[i]])>>],
        0)

\* the list `scores` of _find_closest_matches after its sort
RankedScores(f) ==
    SortByScoreFrom(
        [i \in 1..Len(AssemblyIds) |->
            <<AssemblyIds[i], ClosestScore(f, assembly_specs[AssemblyIds[i]])>>],
        TopScore)

\* _find_closest_matches: scores[:top_n]
_find_closest_matches(f, top_n) ==
    LET scores == RankedScores(f)
    IN  SubSeq(scores, 1, IF top_n < Len(scores) THEN top_n ELSE Len(scores))

\* the ids that _features_match accepts, in catalog order
AcceptedIds(f) ==
    SelectSeq(AssemblyIds, LAMBDA id : _features_match(f, assembly_specs[id]))

\* match_assembly had it matched on a normalised copy and left the record alone
match_assembly_on_copy(m, f) ==
    LET norm == IF Truthy(f.breaker_type)
                THEN _normalize_breaker_type(f.breaker_type)
                ELSE f.breaker_type
    IN  IF IsRaise(norm)
        THEN [raised |-> norm.e, features |-> f]
        ELSE
        LET matches == AcceptedIds([f EXCEPT !.breaker_type = norm])
        IN  IF Len(matches) = 1
            THEN IF matches[1] \notin DOMAIN m.assemblies
                 THEN [raised |-> "KeyError", features |-> f]
                 ELSE [raised |-> "", features |-> f,
                       assemblies |-> matches, status |-> "exact_match",
                       message |-> [kind |-> "exact", assembly |-> matches[1],
                                    project |-> assembly_specs[matches[1]].project,
                                    total_parts |-> m.assemblies[matches[1]].total_parts]]
            ELSE IF Len(matches) > 1
            THEN [raised |-> "", features |-> f,
                  assemblies |-> matches, status |-> "ambiguous",
                  message |-> [kind |-> "ambiguous", assemblies |-> matches]]
            ELSE [raised |-> "", features |-> f,
                  assemblies |-> <<>>, status |-> "no_match",
                  message |-> [kind |-> "closest",
                               closest |-> _find_closest_matches(
                                              [f EXCEPT !.breaker_type = norm], 3)]]

\* match_assembly on matcher m: what it returns (or raises) and the features
\* dict as it leaves it (breaker_type is normalised in place)
match_assembly(m, f) ==
    LET norm == IF Truthy(f.breaker_type)
                THEN _normalize_breaker_type(f.breaker_type)
                ELSE f.breaker_type
    IN  IF IsRaise(norm)
        THEN [raised |-> norm.e, features |-> f]
        ELSE
        LET f2 == [f EXCEPT !.breaker_type = norm]
            matches == AcceptedIds(f2)
        IN  IF Len(matches) = 1
            THEN IF matches[1] \notin DOMAIN m.assemblies
                 THEN [raised |-> "KeyError", features |-> f2]
                 ELSE [raised |-> "", features |-> f2,
                       assemblies |-> matches, status |-> "exact_match",
                       message |-> [kind |-> "exact", assembly |-> matches[1],
                                    project |-> assembly_specs[matches[1]].project,
                                    total_parts |-> m.assemblies[matches[1]].total_parts]]
            ELSE IF Len(matches) > 1
            THEN [raised |-> "", features |-> f2,
                  assemblies |-> matches, status |-> "ambiguous",
                  message |-> [kind |-> "ambiguous", assemblies |-> matches]]
            ELSE [raised |-> "", features |-> f2,
                  assemblies |-> <<>>, status |-> "no_match",
                  message |-> [kind |-> "closest",
                               closest |-> _find_closest_matches(f2, 3)]]

\* generate_bom on matcher m
generate_bom(m, assembly_num) ==
    IF assembly_num \notin DOMAIN m.assemblies
    THEN [raised |-> "", error |-> "not found", available_assemblies |-> m.keys]
    ELSE IF assembly_num \notin DOMAIN assembly_specs
    THEN [raised |-> "KeyError"]
    ELSE [raised |-> "",
          assembly_number |-> assembly_num,
          project |-> assembly_specs[assembly_num].project,
          specifications |-> assembly_specs[assembly_num],
          total_parts |-> m.assemblies[assembly_num].total_parts,
          components |->
             [i \in 1..Len(m.assemblies[assembly_num].components) |->
                [part_number |-> m.assemblies[assembly_num].components[i].PartNumber]]]

-----------------------------------------------------------------------------
(* Module1Matcher: feature extraction from a parsed quote *)

\* str(n) for an int
RECURSIVE DigitsOf(_)
DigitsOf(n) ==
    LET d == <<"0","1","2","3","4","5","6","7","8","9">>[(n % 10) + 1]
    IN  IF n < 10 THEN <<d>> ELSE Append(DigitsOf(n \div 10), d)

IntToStr(n) == IF n < 0 THEN <<"-">> \o DigitsOf(0 - n) ELSE DigitsOf(n)

\* int(s) for a run of digits
RECURSIVE ParseInt(_)
ParseInt(s) ==
    IF Len(s) = 0 THEN 0
    ELSE 10 * ParseInt(SubSeq(s, 1, Len(s) - 1))
         + (CHOOSE v \in 0..9 : DigitsOf(v) = <<s[Len(s)]>>)

\* str(v) for the values a quote field holds
ToStr(v) ==
    CASE v.t = "str"  -> v.s
      [] v.t = "int"  -> IntToStr(v.n)
      [] v.t = "bool" -> IF v.b THEN <<"T","r","u","e">> ELSE <<"F","a","l","s","e">>
      [] v.t = "None" -> <<"N","o","n","e">>

\* _normalize_dimension
_normalize_dimension(dim_str) ==
    IF ~Truthy(dim_str) THEN None
    ELSE LET digits == FirstDigitRun(ToStr(dim_str))
         IN  IF Len(digits) > 0 THEN PyStr(digits) ELSE None

\* the features dict both entry points start from
NoFeatures ==
    [height |-> None, width |-> None, depth |-> None, breaker_type |-> None,
     breaker_quantity |-> None, access |-> None, mount |-> None]

\* a dict value of the quote JSON: {} is falsy, any other dict is truthy
IsDict(v) == v.t = "dict"
Dict(fields) == [t |-> "dict", d |-> fields]

\* access from lower-cased requirement text (extract_features_from_quote)
AccessOfRequirements(req_text) ==
    IF \/ Contains(<<"f","r","o","n","t"," ","a","n","d"," ","r","e","a","r">>, req_text)
       \/ Contains(<<"r","e","a","r"," ","a","c","c","e","s","s">>, req_text)
    THEN PyStr(Front_and_rear)
    ELSE IF \/ Contains(<<"f","r","o","n","t"," ","a","c","c","e","s","s">>, req_text)
            \/ Contains(<<"f","r","o","n","t"," ","o","n","l","y">>, req_text)
    THEN PyStr(Front_only)
    ELSE None

\* mount from lower-cased requirement text (extract_features_from_quote)
MountOfRequirements(req_text) ==
    IF \/ Contains(<<"d","r","a","w","o","u","t">>, req_text)
       \/ Contains(<<"d","r","a","w","-","o","u","t">>, req_text)
    THEN PyStr(Drawout)
    ELSE IF Contains(<<"f","i","x","e","d">>, req_text)
    THEN PyStr(Fixed)
    ELSE None

\* extract_features_from_quote.  quote_json is None or a dict with the keys
\* 'sections' (a list) and 'special_construction_requirements' (a list of values);
\* a section is a dict with 'dimensions', 'main_circuit_breaker' and 'breakers', or a
\* value that is no dict.  An absent key is given the value .get() defaults to.
\* Yields the features, or the exception raised.
extract_features_from_quote(quote_json) ==
    IF ~IsDict(quote_json) THEN [raised |-> "AttributeError"]
    ELSE
    LET sections == quote_json.d.sections
        requirements == quote_json.d.special_construction_requirements
        req_text == Lower(JoinSpace([i \in 1..Len(requirements) |-> ToStr(requirements[i])]))
        tail(f) == [f EXCEPT !.access = AccessOfRequirements(req_text),
                             !.mount = MountOfRequirements(req_text)]
    IN  IF Len(sections) = 0 THEN [raised |-> "", features |-> tail(NoFeatures)]
        ELSE IF ~IsDict(sections[1]) THEN [raised |-> "AttributeError"]
        ELSE
        LET first_section == sections[1].d
            dims == first_section.dimensions
            main_breaker == first_section.main_circuit_breaker
            breakers == first_section.breakers
            f1 == IF IsDict(dims)
                  THEN [NoFeatures EXCEPT
                          !.height = _normalize_dimension(dims.d.height),
                          !.width = _normalize_dimension(dims.d.width),
                          !.depth = _normalize_dimension(dims.d.depth)]
                  ELSE NoFeatures
            f2 == IF Truthy(main_breaker)
                  THEN [f1 EXCEPT !.breaker_type = main_breaker.d.type,
                                  !.breaker_quantity = PyInt(1)]
                  ELSE IF Len(breakers) > 0
                  THEN [f1 EXCEPT !.breaker_type = breakers[1].d.type,
                                  !.breaker_quantity = PyInt(Len(breakers))]
                  ELSE f1
        IN  [raised |-> "", features |-> tail(f2)]

-----------------------------------------------------------------------------
(* The standalone functions: get_matcher, match_quote_to_assembly,           *)
(* match_from_user_input                                                     *)

\* get_matcher with the singleton m and the workbook `file`
get_matcher(m, file) ==
    IF ~IsNone(m) THEN [raised |-> "", matcher |-> m]
    ELSE IF ConstructRaises(file) THEN [raised |-> "Exception", matcher |-> m]
    ELSE [raised |-> "", matcher |-> load_data(file.rows)]

\* the dict the except branch of both entry points returns
ErrorResult(e) ==
    [t |-> "dict", status |-> "error", message |-> [kind |-> "error", e |-> e],
     matched_assemblies |-> <<>>, extracted_features |-> EmptyDict, bom |-> None]

\* the result dict of the try branch, unless generate_bom raised
ResultDict(r, bom) ==
    IF bom # None /\ bom.raised # "" THEN Raise(bom.raised)
    ELSE [t |-> "dict", status |-> r.status, message |-> r.message,
          matched_assemblies |-> r.assemblies,
          extracted_features |-> r.features, bom |-> bom]

\* the wrapper had it generated the BOM of the first match whatever the status
BomAndResult_any_match(m, r) ==
    IF r.raised # "" THEN Raise(r.raised)
    ELSE ResultDict(r, IF Len(r.assemblies) > 0
                       THEN generate_bom(m, r.assemblies[1])
                       ELSE None)

\* after match_assembly yielded r: the BOM of an exact match, then the result dict
BomAndResult(m, r) ==
    IF r.raised # "" THEN Raise(r.raised)
    ELSE ResultDict(r, IF r.status = "exact_match" /\ Len(r.assemblies) > 0
                       THEN generate_bom(m, r.assemblies[1])
                       ELSE None)

\* match, then the BOM of an exact match, then the result dict; raises pass through
MatchAndBom(m, f) == BomAndResult(m, match_assembly(m, f))

\* what a standalone call yields: the returned dict (or the exception that left
\* the call) and the singleton afterwards
Outcome(ret, m) == [ret |-> ret, matcher |-> m]

\* the wrapper without its except branch: the exception leaves the call
Caught_not(r, m) == Outcome(r, m)

\* the except branch: an exception raised in the try branch becomes the error dict
Caught(r, m) == Outcome(IF IsRaise(r) THEN ErrorResult(r.e) ELSE r, m)

\* match_quote_to_assembly once extract_features_from_quote yielded f
QuoteMatched(g, f) ==
    IF f.raised # "" THEN Caught(Raise(f.raised), g.matcher)
    ELSE Caught(MatchAndBom(g.matcher, f.features), g.matcher)

\* match_quote_to_assembly once get_matcher yielded g
QuoteWithMatcher(g, quote_json) ==
    IF g.raised # "" THEN Caught(Raise(g.raised), g.matcher)
    ELSE QuoteMatched(g, extract_features_from_quote(quote_json))

\* match_quote_to_assembly
match_quote_to_assembly(m, file, quote_json) ==
    QuoteWithMatcher(get_matcher(m, file), quote_json)

-----------------------------------------------------------------------------
(* match_from_user_input: the regular expressions and the literal tests *)

\* s[p:] starts with tok
StartsAt(s, p, tok) ==
    /\ p + Len(tok) - 1 <= Len(s)
    /\ SubSeq(s, p, p + Len(tok) - 1) = tok

\* \s* from position p: every position it can stop at
SkipSpaces(s, p) ==
    { q \in p..(Len(s) + 1) : \A k \in p..(q - 1) : IsSpace(s[k]) }

\* (?:INCH|IN|"|\')* from the positions P: every position it can stop at
UnitTokens == { <<"I","N","C","H">>, <<"I","N">>, <<"\"">>, <<"'">> }

RECURSIVE UnitsStar(_, _)
UnitsStar(s, P) ==
    LET N == P \cup { q \in 1..(Len(s) + 1) :
                        \E u \in P, tok \in UnitTokens :
                            StartsAt(s, u, tok) /\ q = u + Len(tok) }
    IN  IF N = P THEN P ELSE UnitsStar(s, N)

\* \s*(?:INCH|IN|"|\')*\s*(?:X|...) matches at p, X the letter the three
\* alternatives of a dimension start with (H|HIGH|HEIGHT, W|WIDE|WIDTH, D|DEEP|DEPTH)
DimSuffix(s, p, letter) ==
    \E u \in UnitsStar(s, SkipSpaces(s, p)) :
        \E q \in SkipSpaces(s, u) : q <= Len(s) /\ s[q] = letter

\* \s*(?:X\s*)?(?:EMAX|TMAX|BREAKER) matches at p
QtySuffix(s, p) ==
    LET A == SkipSpaces(s, p)
        B == A \cup UNION { SkipSpaces(s, a + 1) : a \in { x \in A : x <= Len(s) /\ s[x] = "X" } }
    IN  \E q \in B :
            \E kw \in { <<"E","M","A","X">>, <<"T","M","A","X">>,
                        <<"B","R","E","A","K","E","R">> } : StartsAt(s, q, kw)

\* the last position of the run of digits that starts at i
RunEnd(s, i) ==
    CHOOSE j \in i..Len(s) :
        /\ \A k \in i..j : IsDigit(s[k])
        /\ (j = Len(s) \/ ~IsDigit(s[j + 1]))

\* re.search(r'(\d+)<suffix>', s).group(1): the leftmost run of digits that the
\* suffix follows (a shorter run is followed by a digit, which no suffix accepts),
\* <<>> when the search finds nothing
SearchDigitsThen(s, Suffix(_, _)) ==
    LET starts == { i \in 1..Len(s) :
                      /\ IsDigit(s[i])
                      /\ (i = 1 \/ ~IsDigit(s[i - 1]))
                      /\ Suffix(s, RunEnd(s, i) + 1) }
    IN  IF starts = {} THEN <<>>
        ELSE LET i == CHOOSE a \in starts : \A b \in starts : a <= b
             IN  SubSeq(s, i, RunEnd(s, i))

HeightSuffix(s, p) == DimSuffix(s, p, "H")
WidthSuffix(s, p) == DimSuffix(s, p, "W")
DepthSuffix(s, p) == DimSuffix(s, p, "D")

StrOrNone(s) == IF Len(s) > 0 THEN PyStr(s) ELSE None

\* the breaker literals of match_from_user_input
BreakerOfText(user_upper) ==
    IF Contains(<<"E","M","A","X"," ","6",".","2">>, user_upper) THEN PyStr(ABB_SACE_Emax_6_2)
    ELSE IF Contains(<<"E","M","A","X"," ","2",".","2">>, user_upper) THEN PyStr(ABB_SACE_Emax_2_2)
    ELSE IF Contains(<<"T","M","A","X">>, user_upper) THEN PyStr(ABB_SACE_Tmax)
    ELSE IF Contains(<<"S","Q","U","A","R","E"," ","D">>, user_upper) THEN PyStr(Square_D)
    ELSE None

\* the quantity regex of match_from_user_input
QuantityOfText(user_upper) ==
    LET digits == SearchDigitsThen(user_upper, QtySuffix)
    IN  IF Len(digits) > 0 THEN PyInt(ParseInt(digits)) ELSE None

\* the access literals had the 'front only' rule come first
AccessOfText_front_first(user_upper) ==
    IF \/ Contains(<<"F","R","O","N","T"," ","O","N","L","Y">>, user_upper)
       \/ Contains(<<"F","R","O","N","T"," ","A","C","C","E","S","S">>, user_upper)
    THEN PyStr(Front_only)
    ELSE IF \/ Contains(<<"F","R","O","N","T"," ","A","N","D"," ","R","E","A","R">>, user_upper)
            \/ Contains(<<"R","E","A","R"," ","A","C","C","E","S","S">>, user_upper)
    THEN PyStr(Front_and_rear)
    ELSE None

\* the access literals of match_from_user_input
AccessOfText(user_upper) ==
    IF \/ Contains(<<"F","R","O","N","T"," ","A","N","D"," ","R","E","A","R">>, user_upper)
       \/ Contains(<<"R","E","A","R"," ","A","C","C","E","S","S">>, user_upper)
    THEN PyStr(Front_and_rear)
    ELSE IF \/ Contains(<<"F","R","O","N","T"," ","O","N","L","Y">>, user_upper)
            \/ Contains(<<"F","R","O","N","T"," ","A","C","C","E","S","S">>, user_upper)
    THEN PyStr(Front_only)
    ELSE None

\* the mount literals of match_from_user_input
MountOfText(user_upper) ==
    IF \/ Contains(<<"D","R","A","W","O","U","T">>, user_upper)
       \/ Contains(<<"D","R","A","W","-","O","U","T">>, user_upper)
    THEN PyStr(Drawout)
    ELSE IF Contains(<<"F","I","X","E","D">>, user_upper)
    THEN PyStr(Fixed)
    ELSE None

\* the features match_from_user_input parses out of the text
FeaturesOfText(user_input) ==
    LET user_upper == Upper(user_input)
    IN  [height |-> StrOrNone(SearchDigitsThen(user_upper, HeightSuffix)),
         width |-> StrOrNone(SearchDigitsThen(user_upper, WidthSuffix)),
         depth |-> StrOrNone(SearchDigitsThen(user_upper, DepthSuffix)),
         breaker_type |-> BreakerOfText(user_upper),
         breaker_quantity |-> QuantityOfText(user_upper),
         access |-> AccessOfText(user_upper),
         mount |-> MountOfText(user_upper)]

\* match_from_user_input once the text is parsed to f and get_matcher yielded g
TextMatched(g, f) ==
    IF g.raised # "" THEN Caught(Raise(g.raised), g.matcher)
    ELSE Caught(MatchAndBom(g.matcher, f), g.matcher)

\* match_from_user_input; user_input is a str, or a value without upper()
match_from_user_input(m, file, user_input) ==
    IF ~IsStr(user_input) THEN Caught(Raise("AttributeError"), m)
    ELSE TextMatched(get_matcher(m, file), FeaturesOfText(user_input.s))

-----------------------------------------------------------------------------
(* The box-number generator of quote_search_app_with_module1.py *)

\* A dict of the quote JSON that is read key by key or printed: the list of its
\* <<key, value>> pairs in insertion order.
HasKey(d, key) == \E i \in 1..Len(d) : d[i][1] = key

\* d.get(key, default)
DictGet(d, key, default) ==
    IF HasKey(d, key) THEN d[CHOOSE i \in 1..Len(d) : d[i][1] = key][2] ELSE default

\* a or b
PyOr(a, b) == IF Truthy(a) THEN a ELSE b

\* repr(v) of a dict value; a str is put in single quotes (the values here hold no
\* quote character and no backslash)
Repr(v) == IF IsStr(v) THEN <<"'">> \o v.s \o <<"'">> ELSE ToStr(v)

\* str(d) for a dict: {'k': v, 'k2': v2}
RECURSIVE ReprItems(_)
ReprItems(d) ==
    IF Len(d) = 0 THEN <<>>
    ELSE LET item == <<"'">> \o d[1][1] \o <<"'", ":", " ">> \o Repr(d[1][2])
         IN  IF Len(d) = 1 THEN item
             ELSE item \o <<",", " ">> \o ReprItems(Tail(d))

DictToStr(d) == <<"{">> \o ReprItems(d) \o <<"}">>

\* s.replace(c, '') for a one-character c
RemoveChar(s, c) == SelectSeq(s, LAMBDA x : x # c)

\* s.strip()
RECURSIVE Strip(_)
Strip(s) ==
    IF Len(s) = 0 THEN s
    ELSE IF IsSpace(s[1]) THEN Strip(Tail(s))
    ELSE IF IsSpace(s[Len(s)]) THEN Strip(SubSeq(s, 1, Len(s) - 1))
    ELSE s

\* float(s) for the decimal numerals digits, digits.digits, digits. and .digits:
\* the value as <<numerator, denominator>>, or <<>> where float() raises (the other
\* spellings float() reads, signs, exponents, inf and nan, are not among the keys and
\* values here)
ParseFloat(s) ==
    LET dots == { i \in 1..Len(s) : s[i] = "." }
    IN  IF /\ \A i \in 1..Len(s) : IsDigit(s[i]) \/ s[i] = "."
           /\ Cardinality(dots) <= 1
           /\ \E i \in 1..Len(s) : IsDigit(s[i])
        THEN IF dots = {} THEN <<ParseInt(s), 1>>
             ELSE LET dot == CHOOSE i \in dots : TRUE
                      frac == SubSeq(s, dot + 1, Len(s))
                      RECURSIVE Pow10(_)
                      Pow10(k) == IF k = 0 THEN 1 ELSE 10 * Pow10(k - 1)
                  IN  <<ParseInt(SubSeq(s, 1, dot - 1)) * Pow10(Len(frac)) + ParseInt(frac),
                        Pow10(Len(frac))>>
        ELSE <<>>

FloatEq(a, b) == a # <<>> /\ b # <<>> /\ a[1] * b[2] = b[1] * a[2]

\* get_dimension_code; kb is None or the loaded BoxKnowledge.json
get_dimension_code(dimension_type, value, kb) ==
    IF IsNone(kb) \/ ~Truthy(value) THEN <<"Z">>
    ELSE
    LET mappings == kb.dimension_mappings[dimension_type]
        str_value == Strip(RemoveChar(RemoveChar(ToStr(value), "\""), "'"))
        num_value == ParseFloat(str_value)
        hits == { i \in 1..Len(mappings) :
                    /\ mappings[i][1] # <<"C","U","S","T","O","M">>
                    /\ FloatEq(ParseFloat(mappings[i][1]), num_value) }
    IN  IF HasKey(mappings, str_value) THEN DictGet(mappings, str_value, <<>>)
        ELSE IF num_value # <<>> /\ hits # {}
        THEN mappings[CHOOSE i \in hits : \A j \in hits : i <= j][2]
        ELSE <<"Z">>

\* some keyword of kws is a substring of text
AnyKeywordIn(kws, text) == \E i \in 1..Len(kws) : Contains(kws[i], text)

\* get_front_cornerpost_code had it put the seismic flag before the maker
get_front_cornerpost_code_seismic_first(section_data, has_seismic, kb) ==
    IF IsNone(kb) THEN <<"S">>
    ELSE IF has_seismic THEN <<"2">>
    ELSE IF ~Truthy(DictGet(section_data,
                <<"b","r","e","a","k","e","r","_","m","a","n","u","f","a","c","t","u","r","e","r">>,
                None))
    THEN <<"S">>
    ELSE <<"C">>

\* get_front_cornerpost_code had it looked at the seismic flag alone
get_front_cornerpost_code_by_seismic(section_data, has_seismic, kb) ==
    IF IsNone(kb) THEN <<"S">>
    ELSE IF has_seismic THEN <<"2">> ELSE <<"S">>

\* get_front_cornerpost_code
get_front_cornerpost_code(section_data, has_seismic, kb) ==
    IF IsNone(kb) THEN <<"S">>
    ELSE
    LET breaker_mfr == Upper(ToStr(PyOr(DictGet(section_data,
                          <<"b","r","e","a","k","e","r","_","m","a","n","u","f","a","c","t","u","r","e","r">>,
                          None), PyStr(<<>>))))
        mounting == Upper(ToStr(PyOr(DictGet(section_data,
                          <<"m","o","u","n","t","i","n","g","_","t","y","p","e">>,
                          None), PyStr(<<>>))))
        has_breaker == /\ Len(breaker_mfr) > 0
                       /\ breaker_mfr \notin { <<"N","O","N","E">>, <<"N","/","A">>, <<>>,
                                               <<"N","U","L","L">> }
        is_abb == AnyKeywordIn(<< <<"A","B","B">>, <<"E","M","A","X">>, <<"S","A","C","E">>,
                                  <<"E","2">>, <<"E","4">>, <<"E","6">>, <<"X","T">> >>,
                               breaker_mfr)
        is_schneider == AnyKeywordIn(<< <<"S","C","H","N","E","I","D","E","R">>,
                                        <<"S","Q","U","A","R","E"," ","D">>,
                                        <<"M","A","S","T","E","R","P","A","C","T">>,
                                        <<"N","W">>, <<"N","T">>, <<"M","T","Z">>,
                                        <<"C","O","M","P","A","C","T">> >>,
                                     breaker_mfr)
        is_drawout == AnyKeywordIn(<< <<"D","R","A","W","O","U","T">>,
                                      <<"D","R","A","W","-","O","U","T">>,
                                      <<"D","O">>,
                                      <<"D","R","A","W"," ","O","U","T">>,
                                      <<"W","I","T","H","D","R","A","W","A","B","L","E">> >>,
                                   mounting)
    IN  IF ~has_breaker THEN (IF has_seismic THEN <<"2">> ELSE <<"S">>)
        ELSE IF is_abb THEN (IF is_drawout THEN <<"D">> ELSE <<"C">>)
        ELSE IF is_schneider THEN (IF is_drawout THEN <<"B">> ELSE <<"A">>)
        ELSE IF has_seismic THEN <<"2">> ELSE <<"S">>

\* get_hardware_code
get_hardware_code(hardware_text) ==
    IF ~Truthy(hardware_text) THEN <<"L">>
    ELSE LET hw_upper == Upper(ToStr(hardware_text))
         IN  IF Contains(<<"B","E","L","L","E","V","I","L","L","E">>, hw_upper) THEN <<"B">>
             ELSE <<"L">>

\* get_seismic_code had it left the place empty without seismic
get_seismic_code_blank(has_seismic) == IF has_seismic THEN <<"S">> ELSE <<>>

\* get_seismic_code
get_seismic_code(has_seismic) == IF has_seismic THEN <<"S">> ELSE <<"X">>

\* check_seismic on a str
check_seismic(text) ==
    /\ Len(text) > 0
    /\ AnyKeywordIn(<< <<"S","E","I","S","M","I","C">>, <<"I","B","C">>,
                       <<"S","E","I","S","M","I","C"," ","B","R","A","C","I","N","G">>,
                       <<"S","E","I","S","M","I","C"," ","A","N","C","H","O","R","I","N","G">>,
                       <<"S","E","I","S","M","I","C"," ","Z","O","N","E">> >>,
                    Upper(text))

\* the first <<keyword, code>> of finish_matching whose keyword is in the text
FirstFinishMatch(finish_matching, finish_upper) ==
    LET hits == { i \in 1..Len(finish_matching) :
                    Contains(Upper(finish_matching[i][1]), finish_upper) }
    IN  IF hits = {} THEN <<>>
        ELSE finish_matching[CHOOSE i \in hits : \A j \in hits : i <= j][2]

\* the first <<code, name>> of finish_codes whose name is in the text or holds it
FirstFinishCode(finish_codes, finish_upper) ==
    LET hits == { i \in 1..Len(finish_codes) :
                    \/ Contains(Upper(finish_codes[i][2]), finish_upper)
                    \/ Contains(finish_upper, Upper(finish_codes[i][2])) }
    IN  IF hits = {} THEN <<>>
        ELSE finish_codes[CHOOSE i \in hits : \A j \in hits : i <= j][1]

\* get_finish_code had it looked in finish_matching only
get_finish_code_matching_only(finish_text, kb) ==
    IF IsNone(kb) \/ ~Truthy(finish_text) THEN <<"9","9">>
    ELSE LET by_keyword == FirstFinishMatch(kb.finish_matching, Upper(ToStr(finish_text)))
         IN  IF by_keyword # <<>> THEN by_keyword ELSE <<"9","9">>

\* get_finish_code
get_finish_code(finish_text, kb) ==
    IF IsNone(kb) \/ ~Truthy(finish_text) THEN <<"9","9">>
    ELSE LET finish_upper == Upper(ToStr(finish_text))
             by_keyword == FirstFinishMatch(kb.finish_matching, finish_upper)
             by_name == FirstFinishCode(kb.finish_codes, finish_upper)
         IN  IF by_keyword # <<>> THEN by_keyword
             ELSE IF by_name # <<>> THEN by_name
             ELSE <<"9","9">>

\* has_seismic of generate_box_number: the seismic text, or the printed dict
HasSeismic(board_features) ==
    LET seismic_text == PyOr(DictGet(board_features,
                              <<"s","e","i","s","m","i","c","_","i","n","c","l","u","s","i","o","n","s">>,
                              PyStr(<<>>)), PyStr(<<>>))
    IN  \/ check_seismic(ToStr(seismic_text))
        \/ check_seismic(DictToStr(board_features))

\* generate_box_number: the box number and the codes of its breakdown
generate_box_number(section_data, board_features, kb) ==
    LET height_code == get_dimension_code("height",
                          DictGet(section_data, <<"h","e","i","g","h","t">>, None), kb)
        width_code == get_dimension_code("width",
                          DictGet(section_data, <<"w","i","d","t","h">>, None), kb)
        depth_code == get_dimension_code("depth",
                          DictGet(section_data, <<"d","e","p","t","h">>, None), kb)
        has_seismic == HasSeismic(board_features)
        front_code == get_front_cornerpost_code(section_data, has_seismic, kb)
        hardware_code == get_hardware_code(
                          DictGet(section_data, <<"h","a","r","d","w","a","r","e">>, PyStr(<<>>)))
        seismic_code == get_seismic_code(has_seismic)
        finish_text == PyOr(DictGet(board_features,
                                <<"p","a","i","n","t","_","f","i","n","i","s","h">>, PyStr(<<>>)),
                            DictGet(board_features, <<"f","i","n","i","s","h">>, PyStr(<<>>)))
        finish_code == get_finish_code(finish_text, kb)
    IN  [box_number |-> <<"A","P","B","X">> \o height_code \o width_code \o depth_code
                        \o front_code \o front_code \o hardware_code \o seismic_code
                        \o <<"-","G","0","1","-">> \o finish_code,
         height |-> height_code, width |-> width_code, depth |-> depth_code,
         front_cornerpost |-> front_code, hardware |-> hardware_code,
         seismic |-> seismic_code, finish |-> finish_code]

-----------------------------------------------------------------------------
(* The pattern memory of quote_search_app_with_module1.py: one JSON blob that   *)
(* every app session reads whole and writes whole                              *)

\* the blob does not exist yet
BlobMissing == [t |-> "missing"]

\* the blob holding json.dumps(memory); the values stored are strings, numbers,
\* booleans, null, lists and dicts with string keys, which json.loads gives back
\* as they were
Blob(memory) == [t |-> "blob", memory |-> memory]

\* {"patterns": [], "quotes": {}}; quotes is the list of its <<key, record>> items
\* in insertion order
EmptyMemory == [patterns |-> <<>>, quotes |-> <<>>]

\* load_memory: ok is FALSE when there is no blob client or the download raises
load_memory(b, ok) ==
    IF ~ok \/ b.t = "missing" THEN EmptyMemory ELSE b.memory

\* d[key] = value: an existing key keeps its place
DictSet(d, key, value) ==
    IF HasKey(d, key)
    THEN [i \in 1..Len(d) |-> IF d[i][1] = key THEN <<key, value>> ELSE d[i]]
    ELSE Append(d, <<key, value>>)

\* d with every item of `items` put into it
RECURSIVE DictUpdate(_, _)
DictUpdate(d, items) ==
    IF Len(items) = 0 THEN d
    ELSE DictUpdate(DictSet(d, items[1][1], items[1][2]), Tail(items))

\* save_memory had it put the quotes of `memory` into the quotes the blob holds
save_memory_merging(b, memory, ok) ==
    IF ok
    THEN [blob |-> Blob([memory EXCEPT !.quotes =
                            DictUpdate(load_memory(b, TRUE).quotes, memory.quotes)]),
          returned |-> TRUE]
    ELSE [blob |-> b, returned |-> FALSE]

\* save_memory: the blob afterwards and the value returned; ok is FALSE when there
\* is no blob client or the upload raises
save_memory(b, memory, ok) ==
    IF ok THEN [blob |-> Blob(memory), returned |-> TRUE]
    ELSE [blob |-> b, returned |-> FALSE]

\* board_specs of store_quote_patterns
BoardSpecs(board_features, sections) ==
    [ul_type |-> DictGet(board_features, <<"u","l","_","t","y","p","e">>, None),
     voltage |-> DictGet(board_features, <<"v","o","l","t","a","g","e">>, None),
     amperage |-> DictGet(board_features, <<"m","a","i","n","_","b","u","s","_","a","m","p","e","r","a","g","e">>, None),
     nema_type |-> DictGet(board_features, <<"n","e","m","a","_","t","y","p","e">>, None),
     paint_finish |-> DictGet(board_features, <<"p","a","i","n","t","_","f","i","n","i","s","h">>, None),
     seismic |-> check_seismic(ToStr(DictGet(board_features, <<"s","e","i","s","m","i","c","_","i","n","c","l","u","s","i","o","n","s">>, PyStr(<<>>)))),
     section_count |-> Len(sections)]

\* one entry of section_box_numbers
SectionBoxNumber(section_item) ==
    LET section == DictGet(section_item, <<"s","e","c","t","i","o","n">>, <<>>)
        box_result == DictGet(section_item, <<"b","o","x","_","r","e","s","u","l","t">>, <<>>)
    IN  [section_id |-> DictGet(section, <<"i","d","e","n","t","i","f","i","e","r">>, PyStr(<<"U","n","k","n","o","w","n">>)),
         height |-> DictGet(section, <<"h","e","i","g","h","t">>, None),
         width |-> DictGet(section, <<"w","i","d","t","h">>, None),
         depth |-> DictGet(section, <<"d","e","p","t","h">>, None),
         box_number |-> DictGet(box_result, <<"b","o","x","_","n","u","m","b","e","r">>, None)]

\* board_record of store_quote_patterns
BoardRecord(board) ==
    LET sections == DictGet(board, <<"s","e","c","t","i","o","n","s">>, <<>>)
    IN  [board_name |-> DictGet(board, <<"b","o","a","r","d","_","n","a","m","e">>, PyStr(<<"U","n","k","n","o","w","n">>)),
         specs |-> BoardSpecs(DictGet(board, <<"b","o","a","r","d","_","f","e","a","t","u","r","e","s">>, <<>>), sections),
         sections |-> [i \in 1..Len(sections) |-> SectionBoxNumber(sections[i])]]

\* quote_number.strip().upper()
QuoteKey(quote_number) == Upper(Strip(quote_number))

\* the local `memory` of store_quote_patterns when it calls save_memory
store_quote_patterns(memory, quote_number, boards_data, now) ==
    [memory EXCEPT !.quotes =
        DictSet(memory.quotes, QuoteKey(quote_number),
                [processed_at |-> now,
                 original_quote_number |-> quote_number,
                 boards |-> [i \in 1..Len(boards_data) |-> BoardRecord(boards_data[i])]])]

\* a in b or b in a
EitherContains(a, b) == Contains(a, b) \/ Contains(b, a)

\* s.replace(" ", "").upper()
Squeezed(s) == Upper(RemoveChar(s, " "))

\* process_order: the score of one stored board against the specs of the order.
\* The texts of the order and the stored ul_type are strings (upper() and replace()
\* are called on them); seismic of the order is true, false or null, that of the
\* board a boolean; section_count of the board is an int.
BoardScore(order_specs, board_specs) ==
      (IF /\ Truthy(order_specs.ul_type) /\ Truthy(board_specs.ul_type)
          /\ EitherContains(Upper(order_specs.ul_type.s), Upper(board_specs.ul_type.s))
       THEN 30 ELSE 0)
    + (IF /\ Truthy(order_specs.voltage) /\ Truthy(board_specs.voltage)
          /\ EitherContains(Squeezed(order_specs.voltage.s),
                            Squeezed(ToStr(board_specs.voltage)))
       THEN 25 ELSE 0)
    + (IF /\ Truthy(order_specs.amperage) /\ Truthy(board_specs.amperage)
          /\ Squeezed(order_specs.amperage.s) = Squeezed(ToStr(board_specs.amperage))
       THEN 20 ELSE 0)
    + (IF /\ Truthy(order_specs.nema_type) /\ Truthy(board_specs.nema_type)
          /\ EitherContains(Squeezed(order_specs.nema_type.s),
                            Squeezed(ToStr(board_specs.nema_type)))
       THEN 10 ELSE 0)
    + (IF order_specs.seismic = PyBool(board_specs.seismic) THEN 10 ELSE 0)
    + (IF /\ Truthy(order_specs.section_count) /\ board_specs.section_count # 0
          /\ order_specs.section_count = PyInt(board_specs.section_count)
       THEN 5 ELSE 0)

\* the entries process_order appends for the boards of one stored quote
BoardMatches(order_specs, quote_num, boards) ==
    SelectSeq([i \in 1..Len(boards) |->
                 [score |-> BoardScore(order_specs, boards[i].specs),
                  from_quote |-> quote_num,
                  board_name |-> boards[i].board_name,
                  board_specs |-> boards[i].specs,
                  sections |-> boards[i].sections]],
              LAMBDA m : m.score >= 50)

\* `matches` before the sort: the quotes in stored order, their boards in order
RECURSIVE AllMatches(_, _)
AllMatches(order_specs, quotes) ==
    IF Len(quotes) = 0 THEN <<>>
    ELSE BoardMatches(order_specs, quotes[1][1], quotes[1][2].boards)
         \o AllMatches(order_specs, Tail(quotes))

\* m put into a list sorted by falling score, behind the entries of its score
InsertMatch(sorted, m) ==
    LET k == Cardinality({ i \in 1..Len(sorted) : sorted[i].score >= m.score })
    IN  SubSeq(sorted, 1, k) \o <<m>> \o SubSeq(sorted, k + 1, Len(sorted))

\* matches.sort(key=score, reverse=True): stable
RECURSIVE SortMatches(_)
SortMatches(matches) ==
    IF Len(matches) = 0 THEN <<>>
    ELSE InsertMatch(SortMatches(SubSeq(matches, 1, Len(matches) - 1)),
                     matches[Len(matches)])

\* the result of process_order once the matches are sorted (best_match is
\* matches[1]; the texts match_details, dimensions and message are left out)
OrderResult(order_info, matches) ==
    [t |-> "dict",
     order_info |-> order_info,
     match_method |-> IF Len(matches) > 0 THEN "specs_match" ELSE "no_match",
     matches |-> matches,
     box_numbers |->
        IF Len(matches) = 0 THEN <<>>
        ELSE [i \in 1..Len(matches[1].sections) |->
                [section |-> matches[1].sections[i].section_id,
                 box_number |-> matches[1].sections[i].box_number]]]

\* process_order with the order information extract_order_info gave (None when it
\* gave none) and the memory load_memory gave
process_order(order_info, memory) ==
    IF ~Truthy(order_info) THEN [t |-> "dict", error |-> "no order information"]
    ELSE OrderResult(order_info, SortMatches(AllMatches(order_info.d.specs, memory.quotes)))

\* search_key.split("-R")[0] if "-R" in search_key else search_key
BaseKey(search_key) ==
    LET cuts == { i \in 1..(Len(search_key) - 1) :
                    search_key[i] = "-" /\ search_key[i + 1] = "R" }
    IN  IF cuts = {} THEN search_key
        ELSE SubSeq(search_key, 1, (CHOOSE i \in cuts : \A j \in cuts : i <= j) - 1)

\* find_quote_in_memory with the memory load_memory gave; the reference is a str or
\* None
find_quote_in_memory(quote_reference, memory) ==
    IF ~Truthy(quote_reference) THEN None
    ELSE IF HasKey(memory.quotes, QuoteKey(quote_reference.s))
    THEN DictGet(memory.quotes, QuoteKey(quote_reference.s), None)
    ELSE LET base_key == BaseKey(QuoteKey(quote_reference.s))
             hits == { i \in 1..Len(memory.quotes) : Contains(base_key, memory.quotes[i][1]) }
         IN  IF hits = {} THEN None
             ELSE memory.quotes[CHOOSE i \in hits : \A j \in hits : i <= j][2]

\* the app sessions that run at the same time
Sessions == {1, 2}

\* a session that is in no call
IdleSession == [pc |-> "idle"]

-----------------------------------------------------------------------------
(* The inputs of the calls *)

Fields == {"height", "width", "depth", "breaker_type", "breaker_quantity", "access", "mount"}

CatalogIds == {AssemblyIds[i] : i \in 1..Len(AssemblyIds)}

\* a feature record copied from the stored specs of X: the seven fields,
\* breaker_quantity left out when it is 'multiple'
CopyOf(X) ==
    [k \in Fields |->
        IF k = "breaker_quantity" /\ assembly_specs[X][k] = PyStr(multiple)
        THEN None ELSE assembly_specs[X][k]]

\* f with the fields of mask set to None
Masked(f, mask) == [k \in Fields |-> IF k \in mask THEN None ELSE f[k]]

\* the record whose seven fields are None
AllNull == Masked(CopyOf(AssemblyIds[1]), Fields)

\* field values that are not spelled as the catalog spells them, or that no
\* catalog entry has
VariantValues ==
    { <<"height", PyStr(<<"7","2">>)>>,
      <<"height", PyStr(<<>>)>>,
      <<"width", PyStr(<<"4","2">>)>>,
      <<"depth", PyStr(<<"4","8">>)>>,
      <<"breaker_type", PyStr(<<"A","B","B"," ","E","m","a","x","2">>)>>,
      <<"breaker_type", PyStr(<<"a","b","b"," ","s","a","c","e"," ","e","m","a","x"," ","6",".","2">>)>>,
      <<"breaker_type", PyStr(<<"E","6",".","2">>)>>,
      <<"breaker_type", PyStr(<<"S","i","e","m","e","n","s"," ","W","L">>)>>,
      <<"breaker_type", PyStr(<<"T","M","A","X">>)>>,
      <<"breaker_type", PyStr(<<"S","q","u","a","r","e"," ","D">>)>>,
      <<"breaker_quantity", PyInt(0)>>,
      <<"breaker_quantity", PyInt(1)>>,
      <<"breaker_quantity", PyInt(5)>>,
      <<"breaker_quantity", PyStr(<<"1">>)>>,
      <<"access", PyStr(<<"f","r","o","n","t"," ","o","n","l","y">>)>>,
      <<"access", PyStr(<<"R","e","a","r"," ","o","n","l","y">>)>>,
      <<"mount", PyStr(<<"D","R","A","W","O","U","T">>)>> }

\* the feature records match_assembly and _find_closest_matches are called with
FeatureInputs ==
    { Masked(CopyOf(X), mask) : X \in CatalogIds, mask \in SUBSET Fields }
    \cup { [g EXCEPT ![v[1]] = v[2]] :
             g \in { CopyOf(X) : X \in CatalogIds }
                   \cup { Masked(CopyOf(X), {"breaker_quantity", "access", "mount"}) :
                            X \in CatalogIds },
             v \in VariantValues }
    \cup { [height |-> PyStr(<<"9","0">>), width |-> PyStr(<<"4","0">>),
            depth |-> PyStr(<<"6","0">>), breaker_type |-> PyStr(ABB_SACE_Emax_6_2),
            breaker_quantity |-> None, access |-> a, mount |-> m] :
             a \in { PyStr(Front_only), PyStr(Front_and_rear), PyStr(<<"R","e","a","r"," ","o","n","l","y">>) },
             m \in { PyStr(Fixed), PyStr(Drawout) } }

\* the ids generate_bom is called with
BomIds == CatalogIds \cup {UnknownId, "nonexistent-id"}

\* the canonical breaker strings, upper-cased as _features_match passes them
CanonicalBreakers ==
    { Upper(ABB_SACE_Emax_6_2), Upper(ABB_SACE_Emax_4_2), Upper(ABB_SACE_Emax_2_2),
      Upper(ABB_SACE_Tmax), Upper(Square_D) }

\* the strings _breaker_compatible is called with
BreakerInputs ==
    CanonicalBreakers
    \cup { Upper(<<"A","B","B"," ","E","m","a","x","2">>), Upper(<<"S","i","e","m","e","n","s"," ","W","L">>), Upper(<<"E","m","a","x"," ","2",".","2">>), <<>> }

\* the parsed quotes match_quote_to_assembly is called with
QuoteInputs ==
    { None,
      \* an exact copy of 101
      Dict([sections |-> <<Dict([dimensions |-> Dict([height |-> PyStr(<<"9","0","\"">>), width |-> PyStr(<<"4","0"," ","i","n">>), depth |-> PyStr(<<"6","0">>)]), main_circuit_breaker |-> Dict([type |-> PyStr(<<"A","B","B"," ","S","A","C","E"," ","E","m","a","x"," ","6",".","2">>)]), breakers |-> <<>>])>>,
          special_construction_requirements |-> <<PyStr(<<"F","r","o","n","t"," ","a","n","d"," ","r","e","a","r"," ","a","c","c","e","s","s">>), PyStr(<<"F","i","x","e","d"," ","m","o","u","n","t","e","d">>)>>]),
      \* two Emax 2.2 breakers, drawout, front only: 203
      Dict([sections |-> <<Dict([dimensions |-> Dict([height |-> PyStr(<<"9","0">>), width |-> PyStr(<<"4","0">>), depth |-> PyStr(<<"6","0">>)]), main_circuit_breaker |-> None, breakers |-> <<Dict([type |-> PyStr(<<"E","m","a","x"," ","2",".","2">>)]), Dict([type |-> PyStr(<<"E","m","a","x"," ","2",".","2">>)])>>])>>,
          special_construction_requirements |-> <<PyStr(<<"f","r","o","n","t"," ","o","n","l","y">>), PyStr(<<"d","r","a","w","o","u","t"," ","u","n","i","t","s">>)>>]),
      \* no section, no requirement
      Dict([sections |-> <<>>,
          special_construction_requirements |-> <<>>]),
      \* a height no entry has
      Dict([sections |-> <<Dict([dimensions |-> Dict([height |-> PyStr(<<"7","2">>), width |-> PyStr(<<"4","2">>), depth |-> PyStr(<<"5","6">>)]), main_circuit_breaker |-> Dict([type |-> PyStr(<<"A","B","B"," ","S","A","C","E"," ","E","m","a","x"," ","6",".","2">>)]), breakers |-> <<>>])>>,
          special_construction_requirements |-> <<>>]),
      \* a first section that is no dict
      Dict([sections |-> <<PyStr(<<"S","e","c","t","i","o","n"," ","1","0","1">>)>>,
          special_construction_requirements |-> <<>>]),
      \* a main breaker whose type is a number
      Dict([sections |-> <<Dict([dimensions |-> Dict([height |-> PyStr(<<"9","0">>), width |-> PyStr(<<"4","0">>), depth |-> PyStr(<<"6","0">>)]), main_circuit_breaker |-> Dict([type |-> PyInt(5)]), breakers |-> <<>>])>>,
          special_construction_requirements |-> <<>>]),
      \* the specs of 201
      Dict([sections |-> <<Dict([dimensions |-> Dict([height |-> PyStr(<<"9","0">>), width |-> PyStr(<<"4","0">>), depth |-> PyStr(<<"6","0">>)]), main_circuit_breaker |-> Dict([type |-> PyStr(<<"A","B","B"," ","S","A","C","E"," ","E","m","a","x"," ","6",".","2">>)]), breakers |-> <<>>])>>,
          special_construction_requirements |-> <<PyStr(<<"f","r","o","n","t"," ","o","n","l","y">>), PyStr(<<"d","r","a","w","o","u","t"," ","u","n","i","t","s">>)>>]),
      \* dimensions that are no dict, a breaker without type, both access and both mount phrases
      Dict([sections |-> <<Dict([dimensions |-> None, main_circuit_breaker |-> None, breakers |-> <<Dict([type |-> None])>>])>>,
          special_construction_requirements |-> <<PyStr(<<"r","e","a","r"," ","a","c","c","e","s","s"," ","o","r"," ","f","r","o","n","t"," ","o","n","l","y">>), PyStr(<<"f","i","x","e","d",","," ","d","r","a","w","-","o","u","t">>)>>]),
      \* dimensions with several runs of digits, a numeric width
      Dict([sections |-> <<Dict([dimensions |-> Dict([height |-> PyStr(<<"S","e","c","t","i","o","n"," ","1","0","1">>), width |-> PyInt(30), depth |-> PyStr(<<>>)]), main_circuit_breaker |-> Dict([type |-> PyStr(<<"E","m","a","x"," ","2",".","2">>)]), breakers |-> <<>>])>>,
          special_construction_requirements |-> <<PyStr(<<"d","r","a","w","o","u","t"," ","u","n","i","t","s">>), PyStr(<<"F","r","o","n","t"," ","a","n","d"," ","r","e","a","r"," ","a","c","c","e","s","s">>)>>]) }

\* the texts match_from_user_input is called with; None stands for a value that is no str
TextInputs ==
    { None,
      \* '90H 40W 60D ABB Emax 6.2 fixed front and rear'
      PyStr(<<"9","0","H"," ","4","0","W"," ","6","0","D"," ","A","B","B"," ","E","m","a","x"," ","6",".","2"," ","f","i","x","e","d"," ","f","r","o","n","t"," ","a","n","d"," ","r","e","a","r">>),
      \* '90 inches high, 40 wide, 60 deep, ABB Emax 6.2'
      PyStr(<<"9","0"," ","i","n","c","h","e","s"," ","h","i","g","h",","," ","4","0"," ","w","i","d","e",","," ","6","0"," ","d","e","e","p",","," ","A","B","B"," ","E","m","a","x"," ","6",".","2">>),
      \* '1 x EMAX 6.2, 90H 40W 60D, fixed, rear access'
      PyStr(<<"1"," ","x"," ","E","M","A","X"," ","6",".","2",","," ","9","0","H"," ","4","0","W"," ","6","0","D",","," ","f","i","x","e","d",","," ","r","e","a","r"," ","a","c","c","e","s","s">>),
      \* 'ABB Emax 6.2 breaker'
      PyStr(<<"A","B","B"," ","E","m","a","x"," ","6",".","2"," ","b","r","e","a","k","e","r">>),
      \* 'EMAX 6.2 qty 2'
      PyStr(<<"E","M","A","X"," ","6",".","2"," ","q","t","y"," ","2">>),
      \* 'E6.2 drawout front only 90H'
      PyStr(<<"E","6",".","2"," ","d","r","a","w","o","u","t"," ","f","r","o","n","t"," ","o","n","l","y"," ","9","0","H">>),
      \* 'Emax 4.2 90H'
      PyStr(<<"E","m","a","x"," ","4",".","2"," ","9","0","H">>),
      \* '2 tmax 90"H 42 in W 48D'
      PyStr(<<"2"," ","t","m","a","x"," ","9","0","\"","H"," ","4","2"," ","i","n"," ","W"," ","4","8","D">>),
      \* 'front only rear access draw-out fixed'
      PyStr(<<"f","r","o","n","t"," ","o","n","l","y"," ","r","e","a","r"," ","a","c","c","e","s","s"," ","d","r","a","w","-","o","u","t"," ","f","i","x","e","d">>),
      \* 'square d 78 high 42 wide 33 deep'
      PyStr(<<"s","q","u","a","r","e"," ","d"," ","7","8"," ","h","i","g","h"," ","4","2"," ","w","i","d","e"," ","3","3"," ","d","e","e","p">>),
      \* '3 EMAX 2.2 90H 40W 60D fixed front and rear'
      PyStr(<<"3"," ","E","M","A","X"," ","2",".","2"," ","9","0","H"," ","4","0","W"," ","6","0","D"," ","f","i","x","e","d"," ","f","r","o","n","t"," ","a","n","d"," ","r","e","a","r">>),
      \* '1 Emax 6.2 90H 40W 60D drawout front only'
      PyStr(<<"1"," ","E","m","a","x"," ","6",".","2"," ","9","0","H"," ","4","0","W"," ","6","0","D"," ","d","r","a","w","o","u","t"," ","f","r","o","n","t"," ","o","n","l","y">>),
      \* '72H 40W 60D'
      PyStr(<<"7","2","H"," ","4","0","W"," ","6","0","D">>),
      \* ''
      PyStr(<<>>) }

\* the sections generate_box_number is called with
SectionInputs ==
    { << <<<<"h","e","i","g","h","t">>, PyStr(<<"7","2">>)>>, <<<<"w","i","d","t","h">>, PyStr(<<"4","2">>)>>, <<<<"d","e","p","t","h">>, PyStr(<<"5","6">>)>>, <<<<"b","r","e","a","k","e","r","_","m","a","n","u","f","a","c","t","u","r","e","r">>, PyStr(<<"A","B","B">>)>>, <<<<"m","o","u","n","t","i","n","g","_","t","y","p","e">>, PyStr(<<"D","r","a","w","o","u","t">>)>> >>,
      << <<<<"h","e","i","g","h","t">>, PyStr(<<"9","0",".","0">>)>>, <<<<"w","i","d","t","h">>, PyStr(<<"3","0","\"">>)>>, <<<<"d","e","p","t","h">>, None>>, <<<<"b","r","e","a","k","e","r","_","m","a","n","u","f","a","c","t","u","r","e","r">>, None>>, <<<<"m","o","u","n","t","i","n","g","_","t","y","p","e">>, None>>, <<<<"h","a","r","d","w","a","r","e">>, PyStr(<<"B","e","l","l","e","v","i","l","l","e"," ","w","a","s","h","e","r","s">>)>> >>,
      << <<<<"h","e","i","g","h","t">>, PyStr(<<"9","0">>)>>, <<<<"w","i","d","t","h">>, PyStr(<<"4","0">>)>>, <<<<"d","e","p","t","h">>, PyStr(<<"6","0">>)>>, <<<<"b","r","e","a","k","e","r","_","m","a","n","u","f","a","c","t","u","r","e","r">>, PyStr(<<"S","q","u","a","r","e"," ","D">>)>>, <<<<"m","o","u","n","t","i","n","g","_","t","y","p","e">>, PyStr(<<"F","i","x","e","d">>)>> >>,
      << <<<<"h","e","i","g","h","t">>, PyStr(<<"7","8">>)>>, <<<<"w","i","d","t","h">>, PyInt(42)>>, <<<<"d","e","p","t","h">>, PyStr(<<"3","3">>)>>, <<<<"b","r","e","a","k","e","r","_","m","a","n","u","f","a","c","t","u","r","e","r">>, PyStr(<<"S","i","e","m","e","n","s">>)>>, <<<<"m","o","u","n","t","i","n","g","_","t","y","p","e">>, PyStr(<<"B","o","l","t","e","d"," ","d","o","w","n">>)>> >>,
      \* a fixed mounting whose text has the letters DO
      << <<<<"b","r","e","a","k","e","r","_","m","a","n","u","f","a","c","t","u","r","e","r">>, PyStr(<<"A","B","B"," ","S","A","C","E"," ","E","m","a","x">>)>>, <<<<"m","o","u","n","t","i","n","g","_","t","y","p","e">>, PyStr(<<"F","i","x","e","d",","," ","o","u","t","d","o","o","r">>)>> >> }

\* the board features generate_box_number is called with
BoardInputs ==
    { << <<<<"s","e","i","s","m","i","c","_","i","n","c","l","u","s","i","o","n","s">>, PyStr(<<"s","e","i","s","m","i","c"," ","b","r","a","c","i","n","g"," ","r","e","q","u","i","r","e","d">>)>> >>,
      <<>>,
      << <<<<"s","e","i","s","m","i","c","_","i","n","c","l","u","s","i","o","n","s">>, PyStr(<<>>)>> >>,
      << <<<<"s","e","i","s","m","i","c","_","i","n","c","l","u","s","i","o","n","s">>, None>> >>,
      << <<<<"p","a","i","n","t","_","f","i","n","i","s","h">>, PyStr(<<"A","N","S","I"," ","6","1"," ","g","r","a","y">>)>> >>,
      << <<<<"s","e","i","s","m","i","c","_","i","n","c","l","u","s","i","o","n","s">>, PyStr(<<"n","o","t"," ","r","e","q","u","i","r","e","d">>)>>, <<<<"p","a","i","n","t","_","f","i","n","i","s","h">>, PyStr(<<"A","N","S","I"," ","6","1"," ","g","r","a","y">>)>> >>,
      << <<<<"u","l","_","t","y","p","e">>, PyStr(<<"U","L","8","9","1">>)>>, <<<<"f","i","n","i","s","h">>, PyStr(<<"I","B","C"," ","g","r","a","y">>)>> >>,
      << <<<<"u","l","_","t","y","p","e">>, PyStr(<<"U","L","8","9","1">>)>>, <<<<"s","e","i","s","m","i","c","_","i","n","c","l","u","s","i","o","n","s">>, PyStr(<<"I","B","C"," ","2","0","1","8"," ","c","e","r","t","i","f","i","e","d">>)>>, <<<<"p","a","i","n","t","_","f","i","n","i","s","h">>, PyStr(<<"A","N","S","I"," ","4","9">>)>> >>,
      << <<<<"f","i","n","i","s","h">>, PyStr(<<"P","u","r","p","l","e">>)>> >> }

\* a BoxKnowledge.json: the dimension tables, the finish keywords and the finish names
KnowledgeBase ==
    [t |-> "dict",
     dimension_mappings |->
        [height |-> << <<<<"9","0">>, <<"A">>>>, <<<<"7","8">>, <<"B">>>>, <<<<"7","2">>, <<"C">>>>, <<<<"C","U","S","T","O","M">>, <<"Z">>>> >>,
         width |-> << <<<<"3","0">>, <<"A">>>>, <<<<"4","0">>, <<"B">>>>, <<<<"4","2">>, <<"C">>>>, <<<<"C","U","S","T","O","M">>, <<"Z">>>> >>,
         depth |-> << <<<<"6","0">>, <<"A">>>>, <<<<"4","8">>, <<"B">>>>, <<<<"5","6">>, <<"C">>>>, <<<<"3","3",".","0">>, <<"D">>>>, <<<<"C","U","S","T","O","M">>, <<"Z">>>> >>],
     finish_matching |-> << <<<<"A","N","S","I"," ","6","1">>, <<"6","1">>>>, <<<<"A","N","S","I"," ","4","9">>, <<"4","9">>>> >>,
     finish_codes |-> << <<<<"6","1">>, <<"A","N","S","I"," ","6","1"," ","G","r","a","y">>>>, <<<<"4","9">>, <<"A","N","S","I"," ","4","9"," ","G","r","a","y">>>>, <<<<"7","0">>, <<"G","r","a","y">>>>, <<<<"9","9">>, <<"O","t","h","e","r">>>> >>]

\* a BoxKnowledge.json whose dimension tables are empty
KnowledgeBaseNoDimensions ==
    [KnowledgeBase EXCEPT !.dimension_mappings = [height |-> <<>>, width |-> <<>>, depth |-> <<>>]]

\* the knowledge bases generate_box_number is called with; None when the file did
\* not load
KbInputs == {None, KnowledgeBase, KnowledgeBaseNoDimensions}


\* the quote numbers store_quote_patterns is called with; two of them give one key
QuoteNumbers == { <<"Q","1">>, <<" ","q","1">>, <<"Q","2">> }

\* the boards_data store_quote_patterns is called with
BoardsA ==
    << << <<<<"b","o","a","r","d","_","n","a","m","e">>, PyStr(<<"M","S","B","-","1">>)>>, <<<<"b","o","a","r","d","_","f","e","a","t","u","r","e","s">>, << <<<<"u","l","_","t","y","p","e">>, PyStr(<<"U","L","8","9","1">>)>>, <<<<"v","o","l","t","a","g","e">>, PyStr(<<"4","8","0","V">>)>>, <<<<"s","e","i","s","m","i","c","_","i","n","c","l","u","s","i","o","n","s">>, PyStr(<<"I","B","C"," ","2","0","1","8">>)>> >>>>, <<<<"s","e","c","t","i","o","n","s">>, << << <<<<"s","e","c","t","i","o","n">>, << <<<<"i","d","e","n","t","i","f","i","e","r">>, PyStr(<<"S","1">>)>>, <<<<"h","e","i","g","h","t">>, PyStr(<<"9","0">>)>>, <<<<"w","i","d","t","h">>, PyStr(<<"4","0">>)>>, <<<<"d","e","p","t","h">>, PyStr(<<"6","0">>)>> >>>>, <<<<"b","o","x","_","r","e","s","u","l","t">>, << <<<<"b","o","x","_","n","u","m","b","e","r">>, PyStr(<<"A","P","B","X","A","B","A","A","A","L","S","-","G","0","1","-","9","9">>)>> >>>> >> >>>> >> >>

BoardsB ==
    << << <<<<"b","o","a","r","d","_","f","e","a","t","u","r","e","s">>, << <<<<"u","l","_","t","y","p","e">>, PyStr(<<"U","L","6","7">>)>>, <<<<"m","a","i","n","_","b","u","s","_","a","m","p","e","r","a","g","e">>, PyStr(<<"2","0","0","0","A">>)>>, <<<<"s","e","i","s","m","i","c","_","i","n","c","l","u","s","i","o","n","s">>, None>> >>>>, <<<<"s","e","c","t","i","o","n","s">>, <<>>>> >> >>

BoardsInputs == {BoardsA, BoardsB}

\* the specs of an order
OrderSpecs(ul_type, voltage, amperage, seismic, section_count) ==
    [ul_type |-> ul_type, voltage |-> voltage, amperage |-> amperage,
     nema_type |-> None, seismic |-> seismic, section_count |-> section_count]

\* the order informations process_order gets: none; the specs of the board of
\* BoardsA; specs that agree with BoardsA in all but amperage and with BoardsB in
\* UL type and amperage; no specs
OrderInputs ==
    { None,
      Dict([specs |-> OrderSpecs(PyStr(<<"U","L","8","9","1">>), PyStr(<<"4","8","0"," ","v">>), None, PyBool(TRUE), PyInt(1))]),
      Dict([specs |-> OrderSpecs(PyStr(<<"U","L">>), PyStr(<<"4","8","0","V">>), PyStr(<<"2","0","0","0"," ","A">>), PyBool(TRUE), PyInt(1))]),
      Dict([specs |-> OrderSpecs(None, None, None, None, None)]) }

\* the references find_quote_in_memory is called with: none, a stored number in
\* another spelling, a stored number with a revision, blanks, a number never stored
ReferenceInputs ==
    { None, PyStr(<<" ","q","1"," ">>), PyStr(<<"q","2","-","r","0","4">>), PyStr(<<" ">>), PyStr(<<"Z","Z","9">>) }

\* the number of store_quote_patterns calls in a run
MaxClock == 2

-----------------------------------------------------------------------------
(* The state machine: one call at a time, from "idle" to "done" and back *)

NoCall == [op |-> "none"]

Init ==
    /\ excel \in ExcelFiles
    /\ _matcher = None
    /\ pc = "idle"
    /\ call = NoCall
    /\ features = None
    /\ result = None
    /\ blob = BlobMissing
    /\ clock = 0
    /\ sessions = [p \in Sessions |-> IdleSession]

\* get_matcher(): the first successful call constructs the singleton
GetMatcher ==
    /\ pc = "idle"
    /\ LET g == get_matcher(_matcher, excel)
       IN  /\ _matcher' = g.matcher
           /\ result' = IF g.raised # "" THEN Raise(g.raised) ELSE [t |-> "matcher"]
    /\ call' = [op |-> "get_matcher"]
    /\ pc' = "done"
    /\ UNCHANGED <<excel, features, memory_vars>>

\* matcher.match_assembly(f) on the constructed matcher
MatchAssembly(f) ==
    /\ pc = "idle"
    /\ ~IsNone(_matcher)
    /\ LET r == match_assembly(_matcher, f)
       IN  /\ features' = r.features
           /\ result' = IF r.raised # "" THEN Raise(r.raised)
                        ELSE [t |-> "tuple", assemblies |-> r.assemblies,
                              status |-> r.status, message |-> r.message]
    /\ call' = [op |-> "match_assembly", features |-> f]
    /\ pc' = "done"
    /\ UNCHANGED <<excel, _matcher, memory_vars>>

\* matcher.match_assembly(features) once more, on the record the call before left;
\* `first` keeps what that call returned and `given` the record it was given
MatchAssemblyAgain ==
    /\ pc = "done"
    /\ call.op = "match_assembly"
    /\ "first" \notin DOMAIN call
    /\ LET r == match_assembly(_matcher, features)
       IN  /\ features' = r.features
           /\ result' = IF r.raised # "" THEN Raise(r.raised)
                        ELSE [t |-> "tuple", assemblies |-> r.assemblies,
                              status |-> r.status, message |-> r.message]
    /\ call' = [op |-> "match_assembly", features |-> features, first |-> result,
                given |-> call.features]
    /\ UNCHANGED <<pc, excel, _matcher, memory_vars>>

\* matcher._find_closest_matches(f, top_n) on the constructed matcher
FindClosestMatches(f, top_n) ==
    /\ pc = "idle"
    /\ ~IsNone(_matcher)
    /\ Truthy(f.breaker_type) => IsStr(f.breaker_type)
    /\ result' = [t |-> "list", scores |-> _find_closest_matches(f, top_n)]
    /\ features' = f
    /\ call' = [op |-> "_find_closest_matches", features |-> f, top_n |-> top_n]
    /\ pc' = "done"
    /\ UNCHANGED <<excel, _matcher, memory_vars>>

\* matcher._breaker_compatible(a, b) on the constructed matcher
BreakerCompatible(a, b) ==
    /\ pc = "idle"
    /\ ~IsNone(_matcher)
    /\ result' = PyBool(_breaker_compatible(a, b))
    /\ call' = [op |-> "_breaker_compatible", feature_breaker |-> a, spec_breaker |-> b]
    /\ pc' = "done"
    /\ UNCHANGED <<excel, _matcher, features, memory_vars>>

\* matcher.generate_bom(id) on the constructed matcher
GenerateBom(id) ==
    /\ pc = "idle"
    /\ ~IsNone(_matcher)
    /\ LET b == generate_bom(_matcher, id)
       IN  result' = IF b.raised # "" THEN Raise(b.raised) ELSE b
    /\ call' = [op |-> "generate_bom", assembly_num |-> id]
    /\ pc' = "done"
    /\ UNCHANGED <<excel, _matcher, features, memory_vars>>

\* match_quote_to_assembly(q)
MatchQuoteToAssembly(q) ==
    /\ pc = "idle"
    /\ LET o == match_quote_to_assembly(_matcher, excel, q)
       IN  /\ _matcher' = o.matcher
           /\ result' = o.ret
           /\ features' = IF IsRaise(o.ret) THEN None ELSE o.ret.extracted_features
    /\ call' = [op |-> "match_quote_to_assembly", quote_json |-> q]
    /\ pc' = "done"
    /\ UNCHANGED <<excel, memory_vars>>

\* match_from_user_input(text)
MatchFromUserInput(text) ==
    /\ pc = "idle"
    /\ LET o == match_from_user_input(_matcher, excel, text)
       IN  /\ _matcher' = o.matcher
           /\ result' = o.ret
           /\ features' = IF IsRaise(o.ret) THEN None ELSE o.ret.extracted_features
    /\ call' = [op |-> "match_from_user_input", user_input |-> text]
    /\ pc' = "done"
    /\ UNCHANGED <<excel, memory_vars>>

\* generate_box_number(section, board, kb)
GenerateBoxNumber(section, board, kb) ==
    /\ pc = "idle"
    /\ result' = generate_box_number(section, board, kb)
    /\ call' = [op |-> "generate_box_number", section_data |-> section,
                board_features |-> board, kb |-> kb]
    /\ pc' = "done"
    /\ UNCHANGED <<excel, _matcher, features, memory_vars>>

\* the caller takes the result; the next call starts from "idle"
Return ==
    /\ pc = "done"
    /\ pc' = "idle"
    /\ call' = NoCall
    /\ features' = None
    /\ result' = None
    /\ UNCHANGED <<excel, _matcher, memory_vars>>

Next ==
    \/ GetMatcher
    \/ \E f \in FeatureInputs : MatchAssembly(f)
    \/ MatchAssemblyAgain
    \/ \E f \in FeatureInputs, top_n \in {3, Len(AssemblyIds)} : FindClosestMatches(f, top_n)
    \/ \E a \in BreakerInputs, b \in BreakerInputs : BreakerCompatible(a, b)
    \/ \E id \in BomIds : GenerateBom(id)
    \/ \E q \in QuoteInputs : MatchQuoteToAssembly(q)
    \/ \E text \in TextInputs : MatchFromUserInput(text)
    \/ \E section \in SectionInputs, board \in BoardInputs, kb \in KbInputs :
          GenerateBoxNumber(section, board, kb)
    \/ Return

Spec == Init /\ [][Next]_vars

-----------------------------------------------------------------------------
(* The app sessions: each call of store_quote_patterns is a load, a local      *)
(* update, and a save, and the sessions take these steps in any order          *)

\* store_quote_patterns up to its call of save_memory: load_memory(), then the
\* record of the quote is put into the local memory; blob_at_call keeps what the
\* blob held when the call began
StoreLoad(p, quote_number, boards_data, ok) ==
    /\ sessions[p].pc = "idle"
    /\ clock < MaxClock
    /\ clock' = clock + 1
    /\ sessions' = [sessions EXCEPT ![p] =
          [pc |-> "loaded",
           quote_number |-> quote_number,
           boards_data |-> boards_data,
           blob_at_call |-> blob,
           memory |-> store_quote_patterns(load_memory(blob, ok), quote_number,
                                           boards_data, clock')]]
    /\ UNCHANGED <<blob, excel, _matcher, pc, call, features, result>>

\* save_memory(memory) and the return: len(memory["quotes"]) if it saved, else 0
StoreSave(p, ok) ==
    /\ sessions[p].pc = "loaded"
    /\ LET saved == save_memory(blob, sessions[p].memory, ok)
       IN  /\ blob' = saved.blob
           /\ sessions' = [sessions EXCEPT ![p] =
                 [pc |-> "done",
                  quote_number |-> sessions[p].quote_number,
                  boards_data |-> sessions[p].boards_data,
                  memory |-> sessions[p].memory,
                  returned |-> IF saved.returned THEN Len(sessions[p].memory.quotes)
                               ELSE 0]]
    /\ UNCHANGED <<clock, excel, _matcher, pc, call, features, result>>

\* the session takes the value returned and is free for its next call
SessionReturn(p) ==
    /\ sessions[p].pc = "done"
    /\ sessions' = [sessions EXCEPT ![p] = IdleSession]
    /\ UNCHANGED <<blob, clock, excel, _matcher, pc, call, features, result>>

\* process_order(text) in the app: the order information is what the language
\* model gave for the text
ProcessOrder(order_info, ok) ==
    /\ pc = "idle"
    /\ result' = process_order(order_info, load_memory(blob, ok))
    /\ call' = [op |-> "process_order", order_info |-> order_info]
    /\ pc' = "done"
    /\ UNCHANGED <<excel, _matcher, features, memory_vars>>

\* find_quote_in_memory(quote_reference) in the app
FindQuoteInMemory(quote_reference, ok) ==
    /\ pc = "idle"
    /\ result' = find_quote_in_memory(quote_reference, load_memory(blob, ok))
    /\ call' = [op |-> "find_quote_in_memory", quote_reference |-> quote_reference,
                ok |-> ok]
    /\ pc' = "done"
    /\ UNCHANGED <<excel, _matcher, features, memory_vars>>

\* the app process loads no workbook
MemoryInit == Init /\ excel = ExcelUnreadable

MemoryNext ==
    \/ \E p \in Sessions, quote_number \in QuoteNumbers, boards_data \in BoardsInputs,
          ok \in BOOLEAN : StoreLoad(p, quote_number, boards_data, ok)
    \/ \E p \in Sessions, ok \in BOOLEAN : StoreSave(p, ok)
    \/ \E p \in Sessions : SessionReturn(p)
    \/ \E order_info \in OrderInputs, ok \in BOOLEAN : ProcessOrder(order_info, ok)
    \/ \E quote_reference \in ReferenceInputs, ok \in BOOLEAN :
          FindQuoteInMemory(quote_reference, ok)
    \/ Return

MemorySpec == MemoryInit /\ [][MemoryNext]_vars

-----------------------------------------------------------------------------
(* The claims *)

\* the call `op` has returned or raised
Called(op) == pc = "done" /\ call.op = op

\* the set of the elements of a list
Elements(list) == {list[i] : i \in 1..Len(list)}

\* the matcher holds parts for every id of the hard-coded table
AllPartsLoaded == ~IsNone(_matcher) /\ CatalogIds \subseteq DOMAIN _matcher.assemblies

\* C1: for every catalog id X, match_assembly on a feature record copied from the
\* stored specs of X returns 'exact_match' and the list [X].  Stated for a matcher
\* whose parts table holds every catalog id.
C1_CopyIsExactMatch ==
    \A X \in CatalogIds :
        (Called("match_assembly") /\ call.features = CopyOf(X) /\ AllPartsLoaded)
            => /\ result.t = "tuple"
               /\ result.status = "exact_match"
               /\ result.assemblies = <<X>>

\* C2: match_assembly on the record whose seven fields are None returns 'ambiguous'
\* and all ten catalog ids.
C2_AllNullIsAmbiguous ==
    (Called("match_assembly") /\ call.features = AllNull)
        => /\ result.t = "tuple"
           /\ result.status = "ambiguous"
           /\ result.assemblies = AssemblyIds
           /\ Len(result.assemblies) = 10

C2_Witness ==
    /\ Called("match_assembly")
    /\ call.features = AllNull
    /\ result.t = "tuple"
    /\ result.status = "ambiguous"

\* C3: the status of match_assembly is decided by the number of entries that
\* _features_match accepts: 'exact_match' and that id for one, 'ambiguous' and all
\* accepted ids in catalog order for more than one, 'no_match' and the empty list for
\* none.
C3_StatusByCount ==
    Called("match_assembly") =>
        LET accepted == AcceptedIds(features)
        IN  /\ result.t = "tuple"
            /\ (Len(accepted) = 1) <=> (result.status = "exact_match")
            /\ (Len(accepted) > 1) <=> (result.status = "ambiguous")
            /\ (Len(accepted) = 0) <=> (result.status = "no_match")
            /\ result.assemblies = accepted

\* a standalone entry point has returned or raised
CalledEntryPoint == Called("match_quote_to_assembly") \/ Called("match_from_user_input")

\* C4: in every result of match_quote_to_assembly and match_from_user_input, 'bom' is
\* non-null only when the status is 'exact_match'.
C4_BomOnlyWhenExact ==
    CalledEntryPoint =>
        /\ result.t = "dict"
        /\ result.bom # None => result.status = "exact_match"
        /\ result.status \in {"ambiguous", "no_match", "error"} => result.bom = None

C4_Witness ==
    /\ Called("match_quote_to_assembly")
    /\ result.t = "dict"
    /\ result.status = "exact_match"
    /\ result.bom # None
    /\ result.bom.assembly_number = "123456-0100-101"

\* the exception a step inside the entry point raised, "" if none did; the
\* singleton is unchanged by a call that did not construct it, so the steps are
\* taken again on the state the call left
StepRaised ==
    IF Called("match_quote_to_assembly")
    THEN IF get_matcher(_matcher, excel).raised # ""
         THEN get_matcher(_matcher, excel).raised
         ELSE IF extract_features_from_quote(call.quote_json).raised # ""
         THEN extract_features_from_quote(call.quote_json).raised
         ELSE match_assembly(_matcher,
                  extract_features_from_quote(call.quote_json).features).raised
    ELSE IF ~IsStr(call.user_input) THEN "AttributeError"
    ELSE IF get_matcher(_matcher, excel).raised # ""
    THEN get_matcher(_matcher, excel).raised
    ELSE match_assembly(_matcher, FeaturesOfText(call.user_input.s)).raised

\* C5: match_quote_to_assembly and match_from_user_input never raise; when a step
\* inside them raises, they return status 'error', matched_assemblies [],
\* extracted_features {} and bom None.
C5_ExceptionsBecomeErrorResult ==
    CalledEntryPoint =>
        /\ result.t = "dict"
        /\ StepRaised # "" =>
              /\ result.status = "error"
              /\ result.matched_assemblies = <<>>
              /\ result.extracted_features = EmptyDict
              /\ result.bom = None

\* the lookup of the matched assembly raised inside an entry point
C5_Witness ==
    /\ CalledEntryPoint
    /\ StepRaised = "KeyError"
    /\ result.t = "dict"
    /\ result.status = "error"

\* C6: generate_bom with an id that is not in the catalog returns an error object
\* whose 'available_assemblies' holds the catalog ids, the ids the matcher can return
\* (stated for the set of ids, whatever their order, and for an id that is in
\* neither table).
C6_AvailableIsCatalog ==
    (/\ Called("generate_bom")
     /\ call.assembly_num \notin CatalogIds
     /\ call.assembly_num \notin DOMAIN _matcher.assemblies)
        => /\ "available_assemblies" \in DOMAIN result
           /\ Elements(result.available_assemblies) = CatalogIds

\* generate_bom returned a BOM
IsBom(r) == "components" \in DOMAIN r

\* C7: the BOM generate_bom returns for an id has total_parts = len(components), and
\* components lists the parts of the assembly in the order of the rows of the table.
C7_BomListsRowsInOrder ==
    (Called("generate_bom") /\ IsBom(result)) =>
        LET rows == RowsFor(excel.rows, call.assembly_num)
        IN  /\ result.total_parts = Len(result.components)
            /\ Len(result.components) = Len(rows)
            /\ \A i \in 1..Len(rows) : result.components[i].part_number = rows[i].PartNumber

C7_Witness ==
    /\ Called("generate_bom")
    /\ IsBom(result)
    /\ result.total_parts = 3
    /\ Len(excel.rows) > 3

\* C8: _breaker_compatible is symmetric on the canonical breaker strings, upper-cased.
C8_CompatibleIsSymmetric ==
    (/\ Called("_breaker_compatible")
     /\ call.feature_breaker \in CanonicalBreakers
     /\ call.spec_breaker \in CanonicalBreakers)
        => result = PyBool(_breaker_compatible(call.spec_breaker, call.feature_breaker))

C8_Witness ==
    /\ Called("_breaker_compatible")
    /\ call.feature_breaker = Upper(ABB_SACE_Emax_2_2)
    /\ call.spec_breaker = Upper(ABB_SACE_Emax_6_2)
    /\ result = PyBool(TRUE)

\* the features of C9: 90 x 40 x 60 with an Emax 6.2, and an access/mount pair
\* that no catalog entry has
C9_Features(f) ==
    /\ f.height = PyStr(<<"9","0">>)
    /\ f.width = PyStr(<<"4","0">>)
    /\ f.depth = PyStr(<<"6","0">>)
    /\ f.breaker_type = PyStr(ABB_SACE_Emax_6_2)
    /\ Truthy(f.access)
    /\ Truthy(f.mount)
    /\ \A id \in CatalogIds :
          ~(/\ Lower(assembly_specs[id].access.s) = Lower(f.access.s)
            /\ Lower(assembly_specs[id].mount.s) = Lower(f.mount.s))

\* the place of id in a list of <<id, score>>
PlaceOf(scores, id) == CHOOSE i \in 1..Len(scores) : scores[i][1] = id

\* how many of height, width, depth of the entry equal those of f
DimensionsMatched(f, id) ==
    Cardinality({ k \in {"height", "width", "depth"} : f[k] = assembly_specs[id][k] })

\* C9: for the features of C9 the result is no_match, and the closest-match ranking
\* has 123456-0100-101 first with score 11, before 123456-0100-201 with the same
\* score, which is before every entry that matches fewer dimensions.
\* (123456-0100-102 and -103 score 11 as well and stand between the two, so the
\* three entries reported are 101, 102 and 103.)
C9_ClosestRanking ==
    (Called("match_assembly") /\ C9_Features(call.features)) =>
        LET ranking == RankedScores(features)
        IN  /\ result.t = "tuple"
            /\ result.status = "no_match"
            /\ result.assemblies = <<>>
            /\ ranking[1] = <<"123456-0100-101", 11>>
            /\ result.message.closest[1] = <<"123456-0100-101", 11>>
            /\ ranking[PlaceOf(ranking, "123456-0100-201")][2] = 11
            /\ PlaceOf(ranking, "123456-0100-101") < PlaceOf(ranking, "123456-0100-201")
            /\ \A id \in CatalogIds :
                  DimensionsMatched(features, id) < 3
                      => PlaceOf(ranking, "123456-0100-201") < PlaceOf(ranking, id)

C9_Witness ==
    /\ Called("match_assembly")
    /\ C9_Features(call.features)
    /\ result.t = "tuple"
    /\ result.status = "no_match"

\* the seismic text generate_box_number is given: board_features.seismic_inclusions
SeismicText(board) ==
    ToStr(PyOr(DictGet(board,
                 <<"s","e","i","s","m","i","c","_","i","n","c","l","u","s","i","o","n","s">>,
                 PyStr(<<>>)), PyStr(<<>>)))

\* C10: the seismic character of the box number is 'S' exactly when a seismic keyword
\* occurs in the seismic text, and 'X' otherwise.
C10_SeismicCodeFromSeismicText ==
    Called("generate_box_number") =>
        /\ result.seismic \in {<<"S">>, <<"X">>}
        /\ (result.seismic = <<"S">>) <=> check_seismic(SeismicText(call.board_features))

\* the section and the board features of C11
C11_Section ==
    << <<<<"h","e","i","g","h","t">>, PyStr(<<"7","2">>)>>,
       <<<<"w","i","d","t","h">>, PyStr(<<"4","2">>)>>,
       <<<<"d","e","p","t","h">>, PyStr(<<"5","6">>)>>,
       <<<<"b","r","e","a","k","e","r","_","m","a","n","u","f","a","c","t","u","r","e","r">>,
         PyStr(<<"A","B","B">>)>>,
       <<<<"m","o","u","n","t","i","n","g","_","t","y","p","e">>,
         PyStr(<<"D","r","a","w","o","u","t">>)>> >>

C11_Board ==
    << <<<<"s","e","i","s","m","i","c","_","i","n","c","l","u","s","i","o","n","s">>,
         PyStr(<<"s","e","i","s","m","i","c"," ","b","r","a","c","i","n","g"," ",
                 "r","e","q","u","i","r","e","d">>)>> >>

\* C11: for the section 72 x 42 x 56 with an ABB breaker on a drawout mounting and
\* the seismic text 'seismic bracing required', with a loaded knowledge base,
\* generate_box_number gives the front cornerpost code 'D' and the seismic code 'S'.
C11_AbbDrawoutSeismic ==
    (/\ Called("generate_box_number")
     /\ call.section_data = C11_Section
     /\ call.board_features = C11_Board
     /\ ~IsNone(call.kb))
        => /\ result.front_cornerpost = <<"D">>
           /\ result.seismic = <<"S">>
           /\ SubSeq(result.box_number, 8, 11) = <<"D","D","L","S">>

C11_Witness ==
    /\ Called("generate_box_number")
    /\ call.section_data = C11_Section
    /\ call.board_features = C11_Board
    /\ call.kb = KnowledgeBase
    /\ result.box_number = <<"A","P","B","X","C","C","C","D","D","L","S",
                             "-","G","0","1","-","9","9">>

WithoutSeismicText(board) ==
    SelectSeq(board, LAMBDA item :
        item[1] # <<"s","e","i","s","m","i","c","_","i","n","c","l","u","s","i","o","n","s">>)

\* the board features that differ from `board` in the seismic text at most
SameButSeismicText(board) ==
    { other \in BoardInputs : WithoutSeismicText(other) = WithoutSeismicText(board) }

\* the places where two box numbers of the same length differ
DifferAt(a, b) == { i \in 1..Len(a) : a[i] # b[i] }

\* C13: two inputs of generate_box_number that differ in the seismic text only give
\* box numbers that differ in the seismic character at most; the dimension, front
\* cornerpost, hardware and finish codes are equal.
C13_OnlySeismicCharDiffers ==
    Called("generate_box_number") =>
        \A other \in SameButSeismicText(call.board_features) :
            LET r2 == generate_box_number(call.section_data, other, call.kb)
            IN  /\ r2.height = result.height
                /\ r2.width = result.width
                /\ r2.depth = result.depth
                /\ r2.front_cornerpost = result.front_cornerpost
                /\ r2.hardware = result.hardware
                /\ r2.finish = result.finish
                /\ Len(r2.box_number) = Len(result.box_number)
                /\ DifferAt(r2.box_number, result.box_number) \subseteq {11}

\* C13, amended: two inputs that differ in the seismic text only give equal dimension,
\* hardware and finish codes; the front cornerpost codes are equal, or the seismic
\* codes differ and the front cornerpost code is '2' with seismic 'S' and 'S' with
\* seismic 'X'; the box numbers differ in the two cornerpost characters and the
\* seismic character at most.
C13_SeismicReachesCornerpost ==
    Called("generate_box_number") =>
        \A other \in SameButSeismicText(call.board_features) :
            LET r2 == generate_box_number(call.section_data, other, call.kb)
            IN  /\ r2.height = result.height
                /\ r2.width = result.width
                /\ r2.depth = result.depth
                /\ r2.hardware = result.hardware
                /\ r2.finish = result.finish
                /\ \/ r2.front_cornerpost = result.front_cornerpost
                   \/ /\ r2.seismic = <<"S">> /\ r2.front_cornerpost = <<"2">>
                      /\ result.seismic = <<"X">> /\ result.front_cornerpost = <<"S">>
                   \/ /\ r2.seismic = <<"X">> /\ r2.front_cornerpost = <<"S">>
                      /\ result.seismic = <<"S">> /\ result.front_cornerpost = <<"2">>
                /\ Len(r2.box_number) = Len(result.box_number)
                /\ DifferAt(r2.box_number, result.box_number) \subseteq {8, 9, 11}

\* a section without breaker maker, with a seismic text, next to the same board
\* features without one
C13_Witness ==
    /\ Called("generate_box_number")
    /\ result.front_cornerpost = <<"2">>
    /\ result.seismic = <<"S">>
    /\ \E other \in SameButSeismicText(call.board_features) :
          LET r2 == generate_box_number(call.section_data, other, call.kb)
          IN  /\ r2.front_cornerpost = <<"S">>
              /\ r2.seismic = <<"X">>
              /\ DifferAt(r2.box_number, result.box_number) = {8, 9, 11}

\* C14: when loading the catalog fails, the failure propagates to the caller: no
\* call that needs the matcher returns a result, an 'error' result included, while
\* the workbook cannot be loaded.
C14_LoadFailurePropagates ==
    (/\ pc = "done"
     /\ call.op \in {"get_matcher", "match_quote_to_assembly", "match_from_user_input"}
     /\ excel = ExcelUnreadable)
        => IsRaise(result)

\* the quotes of the stored memory: <<key, record>> in the order of the blob
StoredQuotes(b) == IF b.t = "missing" THEN <<>> ELSE b.memory.quotes

\* the keys of the stored memory
StoredKeys(b) == { StoredQuotes(b)[i][1] : i \in 1..Len(StoredQuotes(b)) }

\* C15: the stored memory is append-only: no step removes a quote record from the
\* blob or replaces its boards and sections.
C15_AppendOnly ==
    [][\A i \in 1..Len(StoredQuotes(blob)) :
          \E j \in 1..Len(StoredQuotes(blob')) :
              /\ StoredQuotes(blob')[j][1] = StoredQuotes(blob)[i][1]
              /\ StoredQuotes(blob')[j][2].boards = StoredQuotes(blob)[i][2].boards]_vars

\* both sessions have returned from store_quote_patterns with a saved memory, for
\* different keys, and neither had the quote of the other in the memory it loaded
BothSavedUnseen ==
    /\ \A p \in Sessions : sessions[p].pc = "done" /\ sessions[p].returned > 0
    /\ QuoteKey(sessions[1].quote_number) # QuoteKey(sessions[2].quote_number)
    /\ ~HasKey(sessions[1].memory.quotes, QuoteKey(sessions[2].quote_number))
    /\ ~HasKey(sessions[2].memory.quotes, QuoteKey(sessions[1].quote_number))

\* C16: store_quote_patterns reads all, modifies and writes all without concurrency
\* control: when two calls for different keys both load before either saves and both
\* saves succeed, the stored memory holds one of the two quotes only.
C16_LostUpdate ==
    BothSavedUnseen =>
        /\ \E p \in Sessions : QuoteKey(sessions[p].quote_number) \in StoredKeys(blob)
        /\ \E p \in Sessions : QuoteKey(sessions[p].quote_number) \notin StoredKeys(blob)
        /\ \E p \in Sessions : blob = Blob(sessions[p].memory)

\* both calls returned 1, and the blob holds the quote of session 2 only
C16_Witness ==
    /\ BothSavedUnseen
    /\ sessions[1].returned = 1
    /\ sessions[2].returned = 1
    /\ StoredKeys(blob) = {QuoteKey(sessions[2].quote_number)}

\* the set of the catalog ids _features_match accepts for f
AcceptedSet(f) == Elements(AcceptedIds(f))

\* C17: a null field is unconstrained: the entries accepted for a feature record are
\* among those accepted for the record with any one field set to None, and an entry
\* is accepted with a None field exactly when it is accepted with its own value in
\* that field.
C17_NullIsUnconstrained ==
    Called("match_assembly") =>
        \A field \in Fields :
            /\ AcceptedSet(features) \subseteq AcceptedSet([features EXCEPT ![field] = None])
            /\ IsNone(features[field]) =>
                  \A id \in CatalogIds :
                      _features_match(features, assembly_specs[id])
                         <=> _features_match(
                                 [features EXCEPT ![field] = assembly_specs[id][field]],
                                 assembly_specs[id])

\* a record with a None field and a field whose constraint removes entries
C17_Witness ==
    /\ Called("match_assembly")
    /\ AcceptedSet(features) # {}
    /\ \E field \in Fields : IsNone(features[field])
    /\ \E field \in Fields :
          /\ ~IsNone(features[field])
          /\ AcceptedSet(features) # AcceptedSet([features EXCEPT ![field] = None])

\* both strings have the word among their whitespace-separated terms
BothHaveTerm(word, a, b) == word \in Terms(a) /\ word \in Terms(b)

\* both strings have the word as a substring
BothContain(word, a, b) == Contains(word, a) /\ Contains(word, b)

\* C18: an entry passes the breaker_type check exactly when the upper-cased query and
\* catalog strings are equal, or both contain 'ABB' and both contain 'EMAX', or both
\* contain 'ABB' and both contain 'TMAX', or both contain 'SQUARE'.
C18_CompatibleBySubstring ==
    Called("_breaker_compatible") =>
        LET a == call.feature_breaker
            b == call.spec_breaker
        IN  result = PyBool(\/ a = b
                            \/ BothContain(<<"A","B","B">>, a, b) /\ BothContain(<<"E","M","A","X">>, a, b)
                            \/ BothContain(<<"A","B","B">>, a, b) /\ BothContain(<<"T","M","A","X">>, a, b)
                            \/ BothContain(<<"S","Q","U","A","R","E">>, a, b))

\* C18, amended: an entry passes the breaker_type check exactly when the upper-cased
\* strings are equal, or 'ABB' and 'EMAX' are both among the whitespace-separated
\* terms of each, or 'ABB' and 'TMAX' are, or 'SQUARE' is; an entry match_assembly
\* accepts for a record with a breaker type passes this check.
C18_CompatibleByTerms ==
    /\ Called("_breaker_compatible") =>
          LET a == call.feature_breaker
              b == call.spec_breaker
          IN  result = PyBool(\/ a = b
                              \/ BothHaveTerm(<<"A","B","B">>, a, b) /\ BothHaveTerm(<<"E","M","A","X">>, a, b)
                              \/ BothHaveTerm(<<"A","B","B">>, a, b) /\ BothHaveTerm(<<"T","M","A","X">>, a, b)
                              \/ BothHaveTerm(<<"S","Q","U","A","R","E">>, a, b))
    /\ (Called("match_assembly") /\ IsStr(features.breaker_type)
            /\ Truthy(features.breaker_type)) =>
          \A id \in AcceptedSet(features) :
              LET a == Upper(features.breaker_type.s)
                  b == Upper(assembly_specs[id].breaker_type.s)
              IN  \/ a = b
                  \/ BothHaveTerm(<<"A","B","B">>, a, b) /\ BothHaveTerm(<<"E","M","A","X">>, a, b)
                  \/ BothHaveTerm(<<"A","B","B">>, a, b) /\ BothHaveTerm(<<"T","M","A","X">>, a, b)
                  \/ BothHaveTerm(<<"S","Q","U","A","R","E">>, a, b)

\* 'ABB EMAX2', which the normalizer leaves as it is, against 'ABB SACE EMAX 2.2'
C18_Witness ==
    /\ Called("_breaker_compatible")
    /\ call.feature_breaker = <<"A","B","B"," ","E","M","A","X","2">>
    /\ call.spec_breaker = Upper(ABB_SACE_Emax_2_2)
    /\ result = PyBool(FALSE)

\* C19: whenever the breaker_quantity of the query is not None, an entry passes the
\* quantity check only if its breaker_quantity equals that of the query or is the
\* token 'multiple'; so for 0 and for quantities given as strings.
C19_QuantityExactUnlessMultiple ==
    (/\ Called("match_assembly")
     /\ result.t = "tuple"
     /\ ~IsNone(call.features.breaker_quantity)) =>
        \A id \in Elements(result.assemblies) :
            \/ assembly_specs[id].breaker_quantity = PyStr(multiple)
            \/ assembly_specs[id].breaker_quantity = features.breaker_quantity

\* the place of an id in the catalog
CatalogPlace(id) == CHOOSE i \in 1..Len(AssemblyIds) : AssemblyIds[i] = id

\* 3 for each of height, width, depth that is not None in f and equals that of the
\* entry, and 2 for a breaker type that is compatible with that of the entry
ExpectedScore(f, id) ==
      3 * Cardinality({ k \in {"height", "width", "depth"} :
                          ~IsNone(f[k]) /\ f[k] = assembly_specs[id][k] })
    + (IF /\ Truthy(f.breaker_type)
          /\ _breaker_compatible(Upper(f.breaker_type.s),
                                 Upper(assembly_specs[id].breaker_type.s))
       THEN 2 ELSE 0)

\* `scores` is the list of the three best entries for f: each with its score, in
\* non-increasing order of score, equal scores in catalog order, and no entry left
\* out that should stand before one of them
IsTopThree(scores, f) ==
    /\ Len(scores) = 3
    /\ \A i \in 1..3 : /\ scores[i][1] \in CatalogIds
                       /\ scores[i][2] = ExpectedScore(f, scores[i][1])
    /\ \A i \in 1..2 :
          \/ scores[i][2] > scores[i + 1][2]
          \/ /\ scores[i][2] = scores[i + 1][2]
             /\ CatalogPlace(scores[i][1]) < CatalogPlace(scores[i + 1][1])
    /\ \A id \in CatalogIds \ {scores[i][1] : i \in 1..3} :
          \/ ExpectedScore(f, id) < scores[3][2]
          \/ /\ ExpectedScore(f, id) = scores[3][2]
             /\ CatalogPlace(scores[3][1]) < CatalogPlace(id)

\* C20: _find_closest_matches scores each entry 3 per dimension that is not None in
\* the query and equals that of the entry, plus 2 for a compatible breaker type, and
\* returns the three entries with the highest scores in non-increasing order, equal
\* scores in catalog order; so does the no_match message of match_assembly.
C20_ClosestTopThree ==
    /\ (Called("_find_closest_matches") /\ call.top_n = 3)
          => IsTopThree(result.scores, call.features)
    /\ (Called("match_assembly") /\ result.t = "tuple" /\ result.status = "no_match")
          => IsTopThree(result.message.closest, features)

\* a query with a None field ranks two entries of score 5 before one of score 3
\* that stands earlier in the catalog than the second of them
C20_Witness ==
    /\ Called("_find_closest_matches")
    /\ call.top_n = 3
    /\ \E k \in {"height", "width", "depth"} : IsNone(call.features[k])
    /\ result.scores[1][2] = 5
    /\ result.scores[2][2] = 5
    /\ result.scores[3][2] = 3
    /\ CatalogPlace(result.scores[3][1]) < CatalogPlace(result.scores[2][1])

\* the canonical form of the first literal of the normalizer's table that the
\* text contains, None when it contains none of them
CanonicalOfText(text) ==
    LET n == _normalize_breaker_type(text)
    IN  IF \/ n.s = ABB_SACE_Emax_6_2 \/ n.s = ABB_SACE_Emax_4_2
           \/ n.s = ABB_SACE_Emax_2_2 \/ n.s = ABB_SACE_Tmax \/ n.s = Square_D
        THEN n ELSE None

\* C21: for every text, match_from_user_input sets breaker_type to the canonical
\* form of the first matching literal of the normalizer's table (EMAX 6.2 / E6.2,
\* EMAX 4.2 / E4.2, EMAX 2.2 / E2.2, TMAX, SQUARE D), the value
\* _normalize_breaker_type gives for the text, and to None when no literal matches.
C21_FreeTextBreakerAsNormalizer ==
    (/\ Called("match_from_user_input")
     /\ IsStr(call.user_input)
     /\ result.status # "error")
        => result.extracted_features.breaker_type = CanonicalOfText(call.user_input)

\* the text the access and mount phrases are looked for in, lower-cased: the
\* requirements of the quote joined by spaces, or the user's text
PhraseText ==
    IF call.op = "match_quote_to_assembly"
    THEN LET requirements == call.quote_json.d.special_construction_requirements
         IN  Lower(JoinSpace([i \in 1..Len(requirements) |-> ToStr(requirements[i])]))
    ELSE Lower(call.user_input.s)

\* one of the phrases occurs in the text
AnyPhrase(phrases, text) == \E ph \in phrases : Contains(ph, text)

RearPhrases == { <<"f","r","o","n","t"," ","a","n","d"," ","r","e","a","r">>, <<"r","e","a","r"," ","a","c","c","e","s","s">> }
FrontPhrases == { <<"f","r","o","n","t"," ","o","n","l","y">>, <<"f","r","o","n","t"," ","a","c","c","e","s","s">> }
DrawoutPhrases == { <<"d","r","a","w","o","u","t">>, <<"d","r","a","w","-","o","u","t">> }
FixedPhrases == { <<"f","i","x","e","d">> }

\* a call of an entry point that parsed its input and matched
ParsedCall ==
    /\ \/ Called("match_quote_to_assembly") /\ IsDict(call.quote_json)
       \/ Called("match_from_user_input") /\ IsStr(call.user_input)
    /\ result.status # "error"

\* C22: in both entry points the access is 'Front and rear' when the text has
\* 'front and rear' or 'rear access' (whatever else it has), else 'Front only' when
\* it has 'front only' or 'front access', else None; the mount is 'Drawout' when the
\* text has 'drawout' or 'draw-out' (also with 'fixed'), else 'Fixed' when it has
\* 'fixed', else None.
C22_AccessMountFirstRuleWins ==
    ParsedCall =>
        /\ result.extracted_features.access =
              IF AnyPhrase(RearPhrases, PhraseText) THEN PyStr(Front_and_rear)
              ELSE IF AnyPhrase(FrontPhrases, PhraseText) THEN PyStr(Front_only)
              ELSE None
        /\ result.extracted_features.mount =
              IF AnyPhrase(DrawoutPhrases, PhraseText) THEN PyStr(Drawout)
              ELSE IF AnyPhrase(FixedPhrases, PhraseText) THEN PyStr(Fixed)
              ELSE None

\* a free text with phrases of both access rules and of both mount rules
C22_Witness ==
    /\ ParsedCall
    /\ call.op = "match_from_user_input"
    /\ AnyPhrase(RearPhrases, PhraseText) /\ AnyPhrase(FrontPhrases, PhraseText)
    /\ AnyPhrase(DrawoutPhrases, PhraseText) /\ AnyPhrase(FixedPhrases, PhraseText)
    /\ result.extracted_features.access = PyStr(Front_and_rear)
    /\ result.extracted_features.mount = PyStr(Drawout)

\* the places in s where an integer of its own starts (a run of digits that is not
\* the tail of a number such as the "2" of "6.2") that directly precedes a breaker
\* keyword, optionally separated by X
CountStarts(s) ==
    { i \in 1..Len(s) :
        /\ IsDigit(s[i])
        /\ (i = 1 \/ ~(IsDigit(s[i - 1]) \/ s[i - 1] = "."))
        /\ QtySuffix(s, RunEnd(s, i) + 1) }

\* C23: match_from_user_input sets breaker_quantity to the integer that directly
\* precedes a breaker keyword and to None when there is none; the digits of a model
\* number ('ABB Emax 6.2 breaker') are never taken as the quantity.
C23_QuantityOnlyFromPrecedingCount ==
    (/\ Called("match_from_user_input")
     /\ IsStr(call.user_input)
     /\ result.status # "error")
        => LET s == Upper(call.user_input.s)
               starts == CountStarts(s)
           IN  result.extracted_features.breaker_quantity =
                  IF starts = {} THEN None
                  ELSE LET i == CHOOSE a \in starts : \A b \in starts : a <= b
                       IN  PyInt(ParseInt(SubSeq(s, i, RunEnd(s, i))))

\* the upper-cased text of a field of the section, empty when absent or falsy
SectionText(section_data, key) ==
    Upper(ToStr(PyOr(DictGet(section_data, key, None), PyStr(<<>>))))

\* the mounting text denotes a drawout mounting: it has one of the drawout phrases,
\* or the abbreviation DO as a word
DenotesDrawout(mounting) ==
    \/ AnyPhrase({ <<"D","R","A","W","O","U","T">>, <<"D","R","A","W","-","O","U","T">>, <<"D","R","A","W"," ","O","U","T">>, <<"W","I","T","H","D","R","A","W","A","B","L","E">> }, mounting)
    \/ <<"D","O">> \in Terms(mounting)

\* the decision table of the front cornerpost
CornerpostTable(breaker_mfr, mounting, has_seismic) ==
    IF breaker_mfr \in { <<>>, <<"N","O","N","E">>, <<"N","/","A">>, <<"N","U","L","L">> }
    THEN (IF has_seismic THEN <<"2">> ELSE <<"S">>)
    ELSE IF AnyPhrase({ <<"A","B","B">>, <<"E","M","A","X">>, <<"S","A","C","E">>, <<"E","2">>, <<"E","4">>, <<"E","6">>, <<"X","T">> }, breaker_mfr)
    THEN (IF DenotesDrawout(mounting) THEN <<"D">> ELSE <<"C">>)
    ELSE IF AnyPhrase({ <<"S","C","H","N","E","I","D","E","R">>, <<"S","Q","U","A","R","E"," ","D">>, <<"M","A","S","T","E","R","P","A","C","T">>, <<"N","W">>, <<"N","T">>, <<"M","T","Z">>, <<"C","O","M","P","A","C","T">> }, breaker_mfr)
    THEN (IF DenotesDrawout(mounting) THEN <<"B">> ELSE <<"A">>)
    ELSE (IF has_seismic THEN <<"2">> ELSE <<"S">>)

\* C24: with a loaded knowledge base the front cornerpost code follows the decision
\* table: no maker gives 2 if seismic else S; an ABB-family maker gives D if the
\* mounting text denotes a drawout mounting else C; else a Schneider-family maker
\* gives B if drawout else A; an unknown maker gives 2 if seismic else S.
C24_CornerpostDecisionTable ==
    (Called("generate_box_number") /\ Truthy(call.kb))
        => /\ result.front_cornerpost \in { <<"S">>, <<"2">>, <<"A">>, <<"B">>, <<"C">>, <<"D">> }
           /\ result.front_cornerpost =
                 CornerpostTable(
                    SectionText(call.section_data, <<"b","r","e","a","k","e","r","_","m","a","n","u","f","a","c","t","u","r","e","r">>),
                    SectionText(call.section_data, <<"m","o","u","n","t","i","n","g","_","t","y","p","e">>),
                    result.seismic = <<"S">>)

\* the upper-cased finish text generate_box_number hands to get_finish_code, empty
\* when the board has none
FinishText(board) ==
    LET finish_text == PyOr(DictGet(board, <<"p","a","i","n","t","_","f","i","n","i","s","h">>, PyStr(<<>>)),
                            DictGet(board, <<"f","i","n","i","s","h">>, PyStr(<<>>)))
    IN  IF Truthy(finish_text) THEN Upper(ToStr(finish_text)) ELSE <<>>

\* the rows of finish_matching whose keyword is in the text
KeywordRows(kb, text) ==
    { i \in 1..Len(kb.finish_matching) : Contains(Upper(kb.finish_matching[i][1]), text) }

\* the rows of finish_codes whose name is in the text or holds the text
NameRows(kb, text) ==
    { i \in 1..Len(kb.finish_codes) :
        \/ Contains(Upper(kb.finish_codes[i][2]), text)
        \/ Contains(text, Upper(kb.finish_codes[i][2])) }

\* the first of a non-empty set of rows
FirstRow(rows) == CHOOSE i \in rows : \A j \in rows : i <= j

\* a call of generate_box_number with a loaded knowledge base and a finish text
FinishLookedUp ==
    /\ Called("generate_box_number")
    /\ Truthy(call.kb)
    /\ FinishText(call.board_features) # <<>>

\* C25 as stated: the finish code is that of the first keyword of finish_matching
\* that is in the finish text, and '99' whenever no keyword of finish_matching is in
\* it (also for an empty or missing finish text).
C25_FinishByKeywordElse99 ==
    Called("generate_box_number") =>
        IF FinishLookedUp /\ KeywordRows(call.kb, FinishText(call.board_features)) # {}
        THEN result.finish = call.kb.finish_matching[
                 FirstRow(KeywordRows(call.kb, FinishText(call.board_features)))][2]
        ELSE result.finish = <<"9","9">>

\* C25 amended: as stated when a keyword of finish_matching is in the finish text;
\* else the code of the first row of finish_codes whose name is in the finish text
\* or holds it; '99' when neither table matches, the finish text is empty or
\* missing, or the knowledge base is not loaded.
C25_FinishByKeywordThenName ==
    Called("generate_box_number") =>
        LET text == FinishText(call.board_features)
        IN  IF ~FinishLookedUp THEN result.finish = <<"9","9">>
            ELSE IF KeywordRows(call.kb, text) # {}
            THEN result.finish = call.kb.finish_matching[FirstRow(KeywordRows(call.kb, text))][2]
            ELSE IF NameRows(call.kb, text) # {}
            THEN result.finish = call.kb.finish_codes[FirstRow(NameRows(call.kb, text))][1]
            ELSE result.finish = <<"9","9">>

\* a finish text no keyword of finish_matching is in, coded by the name of a finish
C25_Witness ==
    /\ FinishLookedUp
    /\ KeywordRows(call.kb, FinishText(call.board_features)) = {}
    /\ NameRows(call.kb, FinishText(call.board_features)) # {}
    /\ result.finish = <<"7","0">>

\* the UL type of the order and that of the board match
UlMatches(order_specs, board_specs) ==
    /\ Truthy(order_specs.ul_type) /\ Truthy(board_specs.ul_type)
    /\ \/ Contains(Upper(order_specs.ul_type.s), Upper(board_specs.ul_type.s))
       \/ Contains(Upper(board_specs.ul_type.s), Upper(order_specs.ul_type.s))

\* the voltage of the order and that of the board match
VoltageMatches(order_specs, board_specs) ==
    /\ Truthy(order_specs.voltage) /\ Truthy(board_specs.voltage)
    /\ \/ Contains(Squeezed(order_specs.voltage.s), Squeezed(ToStr(board_specs.voltage)))
       \/ Contains(Squeezed(ToStr(board_specs.voltage)), Squeezed(order_specs.voltage.s))

\* process_order returned its result for an order
OrderProcessed == Called("process_order") /\ "matches" \in DOMAIN result

\* the scores lie in 0..100 and fall, and the box numbers are those of the sections
\* of the first match
ScoresAndBoxNumbers ==
    OrderProcessed =>
        /\ \A i \in 1..Len(result.matches) : result.matches[i].score \in 0..100
        /\ \A i \in 1..(Len(result.matches) - 1) :
              result.matches[i].score >= result.matches[i + 1].score
        /\ IF Len(result.matches) = 0 THEN result.box_numbers = <<>>
           ELSE /\ Len(result.box_numbers) = Len(result.matches[1].sections)
                /\ \A i \in 1..Len(result.box_numbers) :
                      result.box_numbers[i].box_number =
                         result.matches[1].sections[i].box_number

\* C26: process_order reports a stored board as a match only if both its UL type and
\* its voltage match the order's; every score lies in 0..100, the matches are in
\* non-increasing order of score, and the box numbers are those of the sections of
\* the highest-scoring match.
C26_MatchNeedsUlAndVoltage ==
    /\ ScoresAndBoxNumbers
    /\ OrderProcessed =>
          \A i \in 1..Len(result.matches) :
              /\ UlMatches(call.order_info.d.specs, result.matches[i].board_specs)
              /\ VoltageMatches(call.order_info.d.specs, result.matches[i].board_specs)

\* C27: generate_bom never raises, whatever the id and whatever parts table was
\* loaded: it returns the BOM for an id the parts table has and the not-found object
\* for an id it does not have, also when the ids of the parts table and those of the
\* hard-coded specification table differ.
C27_GenerateBomNeverRaises ==
    Called("generate_bom") =>
        IF call.assembly_num \in DOMAIN _matcher.assemblies
        THEN IsBom(result) /\ result.assembly_number = call.assembly_num
        ELSE "error" \in DOMAIN result /\ result.error = "not found"

\* the record stored under a key
StoredRecord(b, key) == DictGet(StoredQuotes(b), key, None)

\* C28: a store_quote_patterns call whose save succeeds loses no quote stored under
\* another key: every quote the blob held when the call began, under a key other
\* than that of the new quote, is in the blob when the call has saved, also when the
\* read of the blob inside the call failed.
C28_SaveKeepsOtherQuotes ==
    [][\A p \in Sessions :
          (/\ sessions[p].pc = "loaded"
           /\ sessions'[p].pc = "done"
           /\ sessions'[p].returned # 0)
             => \A key \in StoredKeys(sessions[p].blob_at_call)
                              \ {QuoteKey(sessions[p].quote_number)} :
                    /\ key \in StoredKeys(blob')
                    /\ StoredRecord(blob', key)
                          = StoredRecord(sessions[p].blob_at_call, key)]_vars

\* the reference is related to a stored key: it is the key after trim and
\* upper-casing, or what is left of it without the revision is a part of the key
Related(quote_reference, key) ==
    /\ Truthy(quote_reference)
    /\ \/ QuoteKey(quote_reference.s) = key
       \/ /\ BaseKey(QuoteKey(quote_reference.s)) # <<>>
          /\ Contains(BaseKey(QuoteKey(quote_reference.s)), key)

\* C29: find_quote_in_memory(q) returns the record stored for q when the memory it
\* read holds one under the key of q, whatever other quotes are stored (the exact key
\* goes before the prefix and substring fallback), and it returns None for a
\* reference that is unrelated to every stored key.
C29_StoreFindRoundTrip ==
    [][(pc = "idle" /\ pc' = "done" /\ call'.op = "find_quote_in_memory")
          => /\ (/\ call'.ok
                 /\ Truthy(call'.quote_reference)
                 /\ QuoteKey(call'.quote_reference.s) \in StoredKeys(blob))
                   => result' = StoredRecord(blob, QuoteKey(call'.quote_reference.s))
             /\ (\A key \in StoredKeys(blob) : ~Related(call'.quote_reference, key))
                   => result' = None]_vars

\* C30: match_assembly changes nothing but the breaker_type of the record it is
\* given, which it replaces by its normalised form: the matcher, the workbook and the
\* other six fields stay as they were, and a second call on the same record returns
\* what the first returned and leaves the record as it is.
C30_OnlyBreakerTypeChanges ==
    [][(pc' = "done" /\ call'.op = "match_assembly" /\ call' # call)
          => /\ _matcher' = _matcher
             /\ excel' = excel
             /\ \A k \in Fields \ {"breaker_type"} : features'[k] = call'.features[k]
             /\ features'.breaker_type =
                   IF Truthy(call'.features.breaker_type)
                   THEN _normalize_breaker_type(call'.features.breaker_type)
                   ELSE call'.features.breaker_type
             /\ ("first" \in DOMAIN call')
                   => /\ result' = call'.first
                      /\ features' = call'.features]_vars

\* the second of two calls on a record whose breaker_type the first had rewritten to
\* 'ABB SACE Emax 6.2': it returned the same and left the record as it was
C30_Witness ==
    /\ Called("match_assembly")
    /\ "first" \in DOMAIN call
    /\ call.given.breaker_type = PyStr(<<"E","6",".","2">>)
    /\ call.features = [call.given EXCEPT !.breaker_type = PyStr(ABB_SACE_Emax_6_2)]
    /\ features = call.features
    /\ result = call.first
    /\ ~IsRaise(result)
    /\ result.status = "exact_match"

====
